---------------------------- MODULE Spec2Model ----------------------------
(***************************************************************************)
(* Call-outcome classification, the /webhook/vapi fan-out orchestrator and *)
(* the two reconciliation imports of the ErzyCall webhook handler.         *)
(*                                                                         *)
(* Text is modelled as a sequence of one-character strings, so that        *)
(* toLowerCase and String.includes are computed character by character.    *)
(***************************************************************************)
EXTENDS Integers, Sequences, FiniteSets, Bags, TLC

(***************************************************************************)
(* Strings: JavaScript toLowerCase and includes                            *)
(***************************************************************************)
UpperChars ==
  <<"A","B","C","D","E","F","G","H","I","J","K","L","M","N","O","P","Q","R","S","T","U","V","W","X","Y","Z">>

LowerChars ==
  <<"a","b","c","d","e","f","g","h","i","j","k","l","m","n","o","p","q","r","s","t","u","v","w","x","y","z">>

lowerChar(c) ==
  IF \E i \in 1..Len(UpperChars) : UpperChars[i] = c
  THEN LowerChars[CHOOSE i \in 1..Len(UpperChars) : UpperChars[i] = c]
  ELSE c

toLowerCase(s) ==
  [i \in 1..Len(s) |-> lowerChar(s[i])]

includes(hay, needle) ==
  \E i \in 0..(Len(hay) - Len(needle)) :
     \A j \in 1..Len(needle) : hay[i + j] = needle[j]

some(list, hay) ==
  \E k \in 1..Len(list) : includes(hay, list[k])

(***************************************************************************)
(* services/outcome.ts: the phrase lists of determineCallOutcome           *)
(***************************************************************************)
noAnswerReasons ==
  << <<"c","u","s","t","o","m","e","r","-","d","i","d","-","n","o","t","-","a","n","s","w","e","r">>,
     <<"n","o","-","a","n","s","w","e","r">>,
     <<"b","u","s","y">>,
     <<"f","a","i","l","e","d">> >>

negativeIndicators ==
  << <<"n","o","t"," ","i","n","t","e","r","e","s","t","e","d">>,
     <<"n","o"," ","t","h","a","n","k">>,
     <<"n","o",","," ","t","h","a","n","k">>,
     <<"n","o","t"," ","f","o","r"," ","m","e">>,
     <<"d","o","n","'","t"," ","c","a","l","l">>,
     <<"d","o","n","t"," ","c","a","l","l">>,
     <<"d","o"," ","n","o","t"," ","c","a","l","l">>,
     <<"s","t","o","p"," ","c","a","l","l","i","n","g">>,
     <<"r","e","m","o","v","e"," ","m","e">>,
     <<"n","o","t"," ","l","o","o","k","i","n","g">>,
     <<"i","'","m"," ","b","u","s","y">>,
     <<"i","m"," ","b","u","s","y">>,
     <<"i"," ","a","m"," ","b","u","s","y">>,
     <<"t","o","o"," ","b","u","s","y">>,
     <<"c","a","l","l"," ","b","a","c","k"," ","l","a","t","e","r">>,
     <<"n","o","t"," ","n","o","w">>,
     <<"b","a","d"," ","t","i","m","e">>,
     <<"w","r","o","n","g"," ","t","i","m","e">>,
     <<"c","a","n","'","t"," ","t","a","l","k">>,
     <<"c","a","n","t"," ","t","a","l","k">>,
     <<"c","a","n","n","o","t"," ","t","a","l","k">>,
     <<"h","a","n","g"," ","u","p">>,
     <<"h","a","n","g","i","n","g"," ","u","p">>,
     <<"g","o","o","d","b","y","e">>,
     <<"n","o"," ","n","o"," ","n","o">> >>

bookingKeywords ==
  << <<"b","o","o","k">>,
     <<"a","p","p","o","i","n","t","m","e","n","t">>,
     <<"s","c","h","e","d","u","l","e">>,
     <<"s","c","h","e","d","u","l","e","d">>,
     <<"b","o","o","k","i","n","g">>,
     <<"c","o","n","f","i","r","m","e","d">> >>

timeConfirmations ==
  << <<"p","m">>,
     <<"o","'","c","l","o","c","k">>,
     <<"o","c","l","o","c","k">>,
     <<"t","o","m","o","r","r","o","w">>,
     <<"t","o","d","a","y">>,
     <<"m","o","n","d","a","y">>,
     <<"t","u","e","s","d","a","y">>,
     <<"w","e","d","n","e","s","d","a","y">>,
     <<"t","h","u","r","s","d","a","y">>,
     <<"f","r","i","d","a","y">>,
     <<"s","a","t","u","r","d","a","y">>,
     <<"s","u","n","d","a","y">>,
     <<"n","e","x","t"," ","w","e","e","k">>,
     <<"t","h","i","s"," ","w","e","e","k">>,
     <<"m","o","r","n","i","n","g">>,
     <<"a","f","t","e","r","n","o","o","n">>,
     <<"e","v","e","n","i","n","g">>,
     <<"a","t"," ","1">>,
     <<"a","t"," ","2">>,
     <<"a","t"," ","3">>,
     <<"a","t"," ","4">>,
     <<"a","t"," ","5">>,
     <<"a","t"," ","6">>,
     <<"a","t"," ","7">>,
     <<"a","t"," ","8">>,
     <<"a","t"," ","9">>,
     <<"a","t"," ","1","0">>,
     <<"a","t"," ","1","1">>,
     <<"a","t"," ","1","2">> >>

positiveConfirmations ==
  << <<"y","e","s">>,
     <<"s","u","r","e">>,
     <<"o","k","a","y">>,
     <<"o","k">>,
     <<"p","e","r","f","e","c","t">>,
     <<"g","r","e","a","t">>,
     <<"s","o","u","n","d","s"," ","g","o","o","d">>,
     <<"t","h","a","t"," ","w","o","r","k","s">> >>

interestIndicators ==
  << <<"i","n","t","e","r","e","s","t","e","d">>,
     <<"t","e","l","l"," ","m","e"," ","m","o","r","e">>,
     <<"h","o","w"," ","m","u","c","h">>,
     <<"w","h","a","t","'","s"," ","t","h","e"," ","p","r","i","c","e">>,
     <<"p","r","i","c","i","n","g">>,
     <<"s","o","u","n","d","s"," ","i","n","t","e","r","e","s","t","i","n","g">>,
     <<"w","a","n","t"," ","t","o"," ","k","n","o","w"," ","m","o","r","e">>,
     <<"s","e","n","d"," ","m","e"," ","i","n","f","o">>,
     <<"s","e","n","d"," ","i","n","f","o","r","m","a","t","i","o","n">>,
     <<"e","m","a","i","l"," ","m","e">>,
     <<"c","a","l","l"," ","m","e"," ","b","a","c","k">> >>

strVoicemail == <<"v","o","i","c","e","m","a","i","l">>

strNotInterested == <<"n","o","t"," ","i","n","t","e","r","e","s","t","e","d">>

strBooked == <<"b","o","o","k","e","d">>

strConfirmed == <<"c","o","n","f","i","r","m","e","d">>

strScheduled == <<"s","c","h","e","d","u","l","e","d">>

strAppointment == <<"a","p","p","o","i","n","t","m","e","n","t">>

(***************************************************************************)
(* services/outcome.ts: determineCallOutcome, one operator per rule        *)
(***************************************************************************)
\* The end reason is compared as it was received.
isNoAnswer_caseSensitive(endedReason) ==
  \E k \in 1..Len(noAnswerReasons) : noAnswerReasons[k] = endedReason

isNoAnswer(endedReason) ==
  \E k \in 1..Len(noAnswerReasons) : noAnswerReasons[k] = toLowerCase(endedReason)

isVoicemail(endedReason, combined) ==
  \/ toLowerCase(endedReason) = strVoicemail
  \/ includes(combined, strVoicemail)

hasNegativeIndicator_wholeText(combined) ==
  \E k \in 1..Len(negativeIndicators) : negativeIndicators[k] = combined

hasNegativeIndicator(combined) ==
  some(negativeIndicators, combined)

isBooked(combined, summaryLower) ==
  LET hasBookingKeyword == some(bookingKeywords, combined)
      hasTimeConfirmation == some(timeConfirmations, combined)
      hasPositiveConfirmation == some(positiveConfirmations, combined)
      summaryIndicatesBooked ==
        \/ includes(summaryLower, strBooked)
        \/ includes(summaryLower, strConfirmed)
        \/ includes(summaryLower, strScheduled)
        \/ (includes(summaryLower, strAppointment) /\ hasPositiveConfirmation)
  IN  hasBookingKeyword /\ (hasTimeConfirmation \/ summaryIndicatesBooked)

isInterested(combined) ==
  /\ some(interestIndicators, combined)
  /\ ~includes(combined, strNotInterested)

\* A long call is not taken as interest.
durationFallback_neverInterested(duration) ==
  IF duration > 30 THEN "Needs Review"
  ELSE "Not Interested"

durationFallback_offByOne(duration) ==
  IF duration > 120 THEN "Interested"
  ELSE IF duration > 60 THEN "Needs Review"
  ELSE IF duration >= 30 THEN "Needs Review"
  ELSE "Not Interested"

durationFallback(duration) ==
  IF duration > 120 THEN "Interested"
  ELSE IF duration > 60 THEN "Needs Review"
  ELSE IF duration > 30 THEN "Needs Review"
  ELSE "Not Interested"

combinedText(transcript, summary) ==
  toLowerCase(transcript) \o <<" ">> \o toLowerCase(summary)

determineCallOutcome_bookedFirst(endedReason, transcript, summary, duration) ==
  LET summaryLower == toLowerCase(summary)
      combined == combinedText(transcript, summary)
  IN  IF isNoAnswer(endedReason) THEN "No Answer"
      ELSE IF isVoicemail(endedReason, combined) THEN "Voicemail"
      ELSE IF isBooked(combined, summaryLower) THEN "Booked"
      ELSE IF hasNegativeIndicator(combined) THEN "Not Interested"
      ELSE IF isInterested(combined) THEN "Interested"
      ELSE durationFallback(duration)

determineCallOutcome(endedReason, transcript, summary, duration) ==
  LET summaryLower == toLowerCase(summary)
      combined == combinedText(transcript, summary)
  IN  IF isNoAnswer(endedReason) THEN "No Answer"
      ELSE IF isVoicemail(endedReason, combined) THEN "Voicemail"
      ELSE IF hasNegativeIndicator(combined) THEN "Not Interested"
      ELSE IF isBooked(combined, summaryLower) THEN "Booked"
      ELSE IF isInterested(combined) THEN "Interested"
      ELSE durationFallback(duration)

\* shared/schema.ts: the status of a WebhookResponse.
WebhookStatuses == {"success", "ignored", "error"}

callOutcomes ==
  {"Booked", "Interested", "Not Interested", "No Answer", "Voicemail", "Needs Review"}

(***************************************************************************)
(* Inputs of the classifier                                                *)
(***************************************************************************)
SampleDurations ==
  {0, 30, 31, 45, 60, 61, 80, 90, 120, 121}

SampleEndedReasons ==
  << <<>>,
     <<"c","u","s","t","o","m","e","r","-","d","i","d","-","n","o","t","-","a","n","s","w","e","r">>,
     <<"B","u","s","y">>,
     <<"v","o","i","c","e","m","a","i","l">>,
     <<"c","u","s","t","o","m","e","r","-","e","n","d","e","d","-","c","a","l","l">> >>

SampleTranscripts ==
  << <<>>,
     <<"I"," ","a","m"," ","i","n","t","e","r","e","s","t","e","d",","," ","p","l","e","a","s","e"," ","s","e","n","d"," ","m","e"," ","p","r","i","c","i","n","g"," ","i","n","f","o">>,
     <<"y","e","s"," ","t","h","a","t"," ","w","o","r","k","s",","," ","s","e","e"," ","y","o","u"," ","t","o","m","o","r","r","o","w"," ","a","t"," ","3","p","m",","," ","b","o","o","k"," ","i","t">>,
     <<"N","o","t"," ","i","n","t","e","r","e","s","t","e","d",","," ","d","o"," ","n","o","t"," ","b","o","o","k"," ","m","e">>,
     <<"N","o"," ","t","h","a","n","k","s",","," ","b","o","o","k"," ","m","e"," ","a","f","t","e","r"," ","t","h","e"," ","v","o","i","c","e","m","a","i","l">>,
     <<"c","a","n"," ","y","o","u"," ","b","o","o","k"," ","m","e">>,
     <<"h","e","l","l","o"," ","t","h","e","r","e">> >>

SampleSummaries ==
  << <<>>,
     <<"A","p","p","o","i","n","t","m","e","n","t"," ","c","o","n","f","i","r","m","e","d">>,
     <<"C","a","l","l","e","r"," ","a","s","k","e","d"," ","a","b","o","u","t"," ","P","r","i","c","i","n","g">>,
     <<"C","u","s","t","o","m","e","r"," ","d","e","c","l","i","n","e","d">>,
     <<"S","c","h","e","d","u","l","e","d">> >>

(***************************************************************************)
(* Bounds of the model                                                     *)
(***************************************************************************)
MaxRequests == 1

MaxStoreFaults == 1

(***************************************************************************)
(* Inputs of POST /webhook/vapi.  An absent optional field and its falsy   *)
(* value ("" or 0) are the same input to the handler, which reads every    *)
(* optional field through || or a truthiness test.                         *)
(***************************************************************************)
WebhookPayloads ==
  << [valid |-> FALSE, type |-> "", id |-> "", number |-> <<>>, duration |-> 0,
      endedReason |-> <<>>, transcript |-> <<>>, summary |-> <<>>,
      attio_record_id |-> ""],
     [valid |-> TRUE, type |-> "status-update", id |-> "call-A",
      number |-> <<"+","6","0","1","2">>, duration |-> 0,
      endedReason |-> <<>>, transcript |-> <<>>, summary |-> <<>>,
      attio_record_id |-> "rec-1"],
     [valid |-> TRUE, type |-> "end-of-call-report", id |-> "call-A",
      number |-> <<"+","6","0","1","2">>, duration |-> 45,
      endedReason |-> SampleEndedReasons[5],
      transcript |-> SampleTranscripts[2], summary |-> <<>>,
      attio_record_id |-> "rec-1"],
     [valid |-> TRUE, type |-> "end-of-call-report", id |-> "",
      number |-> <<>>, duration |-> 0,
      endedReason |-> <<>>, transcript |-> <<>>, summary |-> <<>>,
      attio_record_id |-> ""],
     [valid |-> TRUE, type |-> "end-of-call-report", id |-> "call-B",
      number |-> <<"+","6","0","1","9">>, duration |-> 0,
      endedReason |-> SampleEndedReasons[2],
      transcript |-> <<>>, summary |-> <<>>,
      attio_record_id |-> ""] >>

CredentialSets ==
  { [telegram |-> TRUE, attio |-> TRUE, facebook |-> TRUE, vapi |-> TRUE,
     pageId |-> TRUE],
    [telegram |-> FALSE, attio |-> FALSE, facebook |-> FALSE, vapi |-> FALSE,
     pageId |-> FALSE] }

(***************************************************************************)
(* Answers of the external services to one request                         *)
(***************************************************************************)
TelegramAnswers == {"ok_true", "ok_false", "not_ok", "throws"}

AttioAnswers == {"ok", "missing_attribute", "other_error", "throws"}

FacebookAnswers == {"ok", "not_ok", "throws"}

(***************************************************************************)
(* services/telegram.ts: sendTelegramNotification                          *)
(***************************************************************************)
sendTelegramNotification(configured, answer) ==
  IF ~configured THEN FALSE
  ELSE IF answer = "throws" THEN FALSE
  ELSE IF answer = "not_ok" THEN FALSE
  ELSE answer = "ok_true"

\* The number of requests sendTelegramNotification sends.
telegramRequests(configured, answer) == IF ~configured THEN 0 ELSE 1

(***************************************************************************)
(* services/attio.ts: updateAttioRecord.  answers[i] is the answer of the  *)
(* CRM to the PATCH of the i-th field set.                                 *)
(***************************************************************************)
FieldSetCount == 3

\* The loop goes on to the next field set after every rejection.
RECURSIVE updateLoop_retriesAnyError(_, _)
updateLoop_retriesAnyError(answers, i) ==
  IF i > FieldSetCount THEN FALSE
  ELSE IF answers[i] = "throws" THEN FALSE
  ELSE IF answers[i] = "ok" THEN TRUE
  ELSE updateLoop_retriesAnyError(answers, i + 1)

RECURSIVE updateLoop(_, _)
updateLoop(answers, i) ==
  IF i > FieldSetCount THEN FALSE
  ELSE IF answers[i] = "throws" THEN FALSE
  ELSE IF answers[i] = "ok" THEN TRUE
  ELSE IF answers[i] = "missing_attribute" THEN updateLoop(answers, i + 1)
  ELSE FALSE

updateAttioRecord_anyAccepted(configured, recordId, answers) ==
  /\ configured
  /\ recordId # ""
  /\ \E i \in 1..FieldSetCount : answers[i] = "ok"

updateAttioRecord(configured, recordId, answers) ==
  IF ~configured THEN FALSE
  ELSE IF recordId = "" THEN FALSE
  ELSE updateLoop(answers, 1)

\* The number of PATCH requests the loop over fieldSets makes from field set
\* i on: "continue" after a missing attribute, return after anything else.
RECURSIVE attemptLoop(_, _)
attemptLoop(answers, i) ==
  IF i > FieldSetCount THEN 0
  ELSE IF answers[i] = "missing_attribute" THEN 1 + attemptLoop(answers, i + 1)
  ELSE 1

updateAttempts(configured, recordId, answers) ==
  IF ~configured THEN 0
  ELSE IF recordId = "" THEN 0
  ELSE attemptLoop(answers, 1)

OUTCOME_TO_ATTIO ==
  [o \in callOutcomes |->
     CASE o = "Booked" -> "Booked"
       [] o = "Interested" -> "Answered_Interested"
       [] o = "Not Interested" -> "Answered_Not_Interested"
       [] o = "No Answer" -> "No_Answer"
       [] o = "Voicemail" -> "Voicemail_Left"
       [] o = "Needs Review" -> "Needs_Review"]

\* lines 132-144: a field that is not set has the empty value.
allValues(options) ==
  [call_outcome |-> OUTCOME_TO_ATTIO[options.outcome],
   call_summary |-> options.summary,
   call_recording |-> options.recordingUrl]

\* lines 147-151: the three field sets the loop goes through.
fieldSets(options) ==
  << allValues(options),
     [call_outcome |-> OUTCOME_TO_ATTIO[options.outcome],
      call_summary |-> options.summary,
      call_recording |-> ""],
     [call_outcome |-> OUTCOME_TO_ATTIO[options.outcome],
      call_summary |-> <<>>,
      call_recording |-> ""] >>

\* lines 155-158: the names of the fields with a non-empty value, which are
\* the fields the PATCH request carries.
cleanValues(values) ==
  (IF values.call_outcome # "" THEN {"call_outcome"} ELSE {})
  \cup (IF values.call_summary # <<>> THEN {"call_summary"} ELSE {})
  \cup (IF values.call_recording # "" THEN {"call_recording"} ELSE {})

\* The field sets of the PATCH requests one call sends, in order.
sentFieldSets(configured, recordId, options, answers) ==
  [i \in 1..updateAttempts(configured, recordId, answers) |->
     cleanValues(fieldSets(options)[i])]

(***************************************************************************)
(* services/attio.ts: record lookup and creation.  The CRM is a sequence   *)
(* of people records; null is the empty string.                            *)
(***************************************************************************)
strUnknownPhone == <<"U","n","k","n","o","w","n">>

LookupAnswers == {"ok", "not_ok", "throws"}

CreateAnswers == {"ok", "lead_status_error", "other_error", "throws"}

RecordIdPool ==
  <<"rec-1", "rec-2", "rec-3", "rec-4", "rec-5", "rec-6", "rec-7", "rec-8",
    "rec-9", "rec-10", "rec-11", "rec-12">>

startsWithPlus(phone) == Len(phone) > 0 /\ phone[1] = "+"

normalizedPhone(phone) ==
  IF startsWithPlus(phone) THEN phone ELSE <<"+">> \o phone

\* The people records the CRM returns for a filter on phone_numbers.
queryByPhone(crm, phone) ==
  SelectSeq(crm, LAMBDA rec : rec.phone = phone)

\* The people records the CRM returns for a filter on email_addresses; the
\* CRM compares e-mail addresses without regard to case.
queryByEmail(crm, email) ==
  SelectSeq(crm, LAMBDA rec : rec.email # <<>> /\ toLowerCase(rec.email) = email)

\* Whether a lookup reaches the CRM and is answered by it.
phoneLookupAnswered(configured, phoneNumber, answer) ==
  /\ configured
  /\ phoneNumber # <<>>
  /\ phoneNumber # strUnknownPhone
  /\ answer = "ok"

findAttioRecordByPhone_raw(configured, phoneNumber, answer, crm) ==
  IF ~configured \/ phoneNumber = <<>> \/ phoneNumber = strUnknownPhone THEN ""
  ELSE IF answer = "throws" THEN ""
  ELSE IF answer = "not_ok" THEN ""
  ELSE LET data == queryByPhone(crm, phoneNumber)
       IN  IF Len(data) > 0 THEN data[1].record_id ELSE ""

findAttioRecordByPhone(configured, phoneNumber, answer, crm) ==
  IF ~configured \/ phoneNumber = <<>> \/ phoneNumber = strUnknownPhone THEN ""
  ELSE IF answer = "throws" THEN ""
  ELSE IF answer = "not_ok" THEN ""
  ELSE LET data == queryByPhone(crm, normalizedPhone(phoneNumber))
       IN  IF Len(data) > 0 THEN data[1].record_id ELSE ""

findAttioRecordByEmail_ignoresStatus(configured, email, answer, crm) ==
  IF ~configured \/ email = <<>> THEN ""
  ELSE LET data == queryByEmail(crm, toLowerCase(email))
       IN  IF Len(data) > 0 THEN data[1].record_id ELSE ""

findAttioRecordByEmail(configured, email, answer, crm) ==
  IF ~configured \/ email = <<>> THEN ""
  ELSE IF answer = "throws" THEN ""
  ELSE IF answer = "not_ok" THEN ""
  ELSE LET data == queryByEmail(crm, toLowerCase(email))
       IN  IF Len(data) > 0 THEN data[1].record_id ELSE ""

\* The values createAttioRecord posts for a lead (lines 213-234), as the CRM
\* stores them under a new record id.
newRecord(crm, params) ==
  [record_id |-> RecordIdPool[Len(crm) + 1],
   email |-> params.email,
   phone |-> IF params.phone # <<>> THEN normalizedPhone(params.phone) ELSE <<>>]

\* Both value sets are posted, whatever the CRM answers to the first.
createAttioRecord_noEarlyReturn(configured, params, answers, crm) ==
  LET first == IF answers[1] = "ok" THEN Append(crm, newRecord(crm, params))
               ELSE crm
      second == IF answers[2] = "ok"
                THEN Append(first, newRecord(first, params))
                ELSE first
  IN  IF ~configured THEN [recordId |-> "", crm |-> crm]
      ELSE [recordId |-> IF Len(second) > Len(crm)
                         THEN RecordIdPool[Len(crm) + 1] ELSE "",
            crm |-> second]

\* createAttioRecord: first with lead_status, then without it when the CRM
\* rejected lead_status.  Returns the new record id (or null) and the CRM
\* after the call.
createAttioRecord(configured, params, answers, crm) ==
  LET created == [recordId |-> RecordIdPool[Len(crm) + 1],
                  crm |-> Append(crm, newRecord(crm, params))]
      failed == [recordId |-> "", crm |-> crm]
  IN  IF ~configured THEN failed
      ELSE IF answers[1] = "throws" THEN failed
      ELSE IF answers[1] = "ok" THEN created
      ELSE IF answers[1] = "lead_status_error"
           THEN IF answers[2] = "throws" THEN failed
                ELSE IF answers[2] = "ok" THEN created
                ELSE failed
      ELSE failed

\* The number of POSTs createAttioRecord sends.
createAttempts(configured, params, answers) ==
  IF ~configured THEN 0
  ELSE IF answers[1] = "lead_status_error" THEN 2
  ELSE 1

(***************************************************************************)
(* services/facebook.ts: sendConversionEvent                               *)
(***************************************************************************)
\* The event is sent whether or not an access token is configured.
sendConversionEvent_noCredentialCheck(configured, answer) ==
  IF answer = "throws" THEN FALSE
  ELSE IF answer = "not_ok" THEN FALSE
  ELSE TRUE

sendConversionEvent(configured, answer) ==
  IF ~configured THEN FALSE
  ELSE IF answer = "throws" THEN FALSE
  ELSE IF answer = "not_ok" THEN FALSE
  ELSE TRUE

\* The number of requests sendConversionEvent sends.
conversionRequests(configured, answer) == IF ~configured THEN 0 ELSE 1

(***************************************************************************)
(* services/facebook.ts: the user_data of a conversion event.  A lead id   *)
(* is text; the number parseInt makes of it is an IEEE 754 double, written *)
(* here as the decimal digits JSON.stringify prints for it.  Below 2^53    *)
(* every integer is a double; from 2^53 to 2^54 only the even ones are,    *)
(* and an odd one rounds to the neighbour that is a multiple of 4; the     *)
(* printed digits are then the exact value.  Lead ids of 2^54 and above    *)
(* are not among the inputs.                                               *)
(***************************************************************************)
DecimalDigits == <<"0", "1", "2", "3", "4", "5", "6", "7", "8", "9">>

isDigit(c) == \E d \in 1..10 : DecimalDigits[d] = c

digitValue(c) == (CHOOSE d \in 1..10 : DecimalDigits[d] = c) - 1

digitChar(v) == DecimalDigits[v + 1]

\* /^\d{15,17}$/
isNumericLeadId(leadId) ==
  /\ Len(leadId) >= 15
  /\ Len(leadId) <= 17
  /\ \A i \in 1..Len(leadId) : isDigit(leadId[i])

RECURSIVE stripLeadingZeros(_)
stripLeadingZeros(ds) ==
  IF Len(ds) > 1 /\ ds[1] = "0" THEN stripLeadingZeros(Tail(ds)) ELSE ds

\* a < b for two decimal numerals without leading zeros
RECURSIVE lexLess(_, _)
lexLess(a, b) ==
  IF a = <<>> THEN FALSE
  ELSE IF digitValue(a[1]) # digitValue(b[1])
       THEN digitValue(a[1]) < digitValue(b[1])
       ELSE lexLess(Tail(a), Tail(b))

numeralLess(a, b) ==
  IF Len(a) # Len(b) THEN Len(a) < Len(b) ELSE lexLess(a, b)

RECURSIVE increment(_)
increment(ds) ==
  IF ds = <<>> THEN <<"1">>
  ELSE LET init == SubSeq(ds, 1, Len(ds) - 1)
           last == digitValue(ds[Len(ds)])
       IN  IF last = 9 THEN increment(init) \o <<"0">>
           ELSE init \o <<digitChar(last + 1)>>

RECURSIVE decrement(_)
decrement(ds) ==
  LET init == SubSeq(ds, 1, Len(ds) - 1)
      last == digitValue(ds[Len(ds)])
  IN  IF last = 0 THEN stripLeadingZeros(decrement(init) \o <<"9">>)
      ELSE stripLeadingZeros(init \o <<digitChar(last - 1)>>)

TwoTo53 == <<"9","0","0","7","1","9","9","2","5","4","7","4","0","9","9","2">>

\* The double nearest to the integer a numeral of digits denotes (ties to
\* even), as the numeral of its exact value.
nearestDouble(ds) ==
  IF ~numeralLess(TwoTo53, ds) THEN ds
  ELSE LET low == 10 * digitValue(ds[Len(ds) - 1]) + digitValue(ds[Len(ds)])
       IN  IF low % 4 = 1 THEN decrement(ds)
           ELSE IF low % 4 = 3 THEN increment(ds)
           ELSE ds

\* parseInt(leadId, 10) of a string of digits, as JSON.stringify prints it.
parseInt(leadId) == nearestDouble(stripLeadingZeros(leadId))

SampleLeadIds ==
  << <<>>,
     <<"1","2","3","4","5","6","7","8","9","0","1","2","3","4">>,
     <<"1","2","3","4","5","6","7","8","9","0","1","2","3","4","5">>,
     <<"1","2","3","4","5","6","7","8","9","0","1","2","3","4","a">>,
     <<"0","0","0","0","0","0","0","0","0","0","0","0","1","2","3">>,
     <<"9","0","0","7","1","9","9","2","5","4","7","4","0","9","9","4">>,
     <<"9","0","0","7","1","9","9","2","5","4","7","4","0","9","9","3">>,
     <<"1","0","0","0","0","0","0","0","0","0","0","0","0","0","0","0","3">>,
     <<"1","0","0","0","0","0","0","0","0","0","0","0","0","0","0","0","0","1">> >>

SamplePhones == << <<>>, strUnknownPhone, <<"+","6","0","1","2">> >>

SampleEmails == << <<>>, <<"a","@","x",".","c","o">> >>

\* lines 329-345: the user_data sendConversionEvent builds: whether a hashed
\* phone and a hashed email are in it, and the lead_id (<<>> when absent).
userDataOf(params) ==
  [ph |-> params.phoneNumber # <<>> /\ params.phoneNumber # strUnknownPhone,
   em |-> params.email # <<>>,
   lead_id |-> IF params.leadId # <<>> /\ isNumericLeadId(params.leadId)
               THEN parseInt(params.leadId) ELSE <<>>]

(***************************************************************************)
(* routes.ts: the fields POST /webhook/vapi extracts from a payload        *)
(***************************************************************************)
strUnknown == <<"u","n","k","n","o","w","n">>

callIdOf(payload) == IF payload.id # "" THEN payload.id ELSE "unknown"

customerPhoneOf(payload) ==
  IF payload.number # <<>> THEN payload.number ELSE strUnknownPhone

durationOf(payload) == IF payload.duration # 0 THEN payload.duration ELSE 0

endedReasonOf(payload) ==
  IF payload.endedReason # <<>> THEN payload.endedReason ELSE strUnknown

outcomeOf(payload) ==
  determineCallOutcome(endedReasonOf(payload), payload.transcript,
                       payload.summary, durationOf(payload))

statusOf(ok) == IF ok THEN "success" ELSE "failed"


(***************************************************************************)
(* services/vapi.ts: processing of a fetched call                          *)
(***************************************************************************)
MaxBatch == 2

strAIPrefix == <<"A","I",":"," ">>

strUserPrefix == <<"U","s","e","r",":"," ">>

VapiCallSamples ==
  << [id |-> "call-A", status |-> "ended", endedReason |-> SampleEndedReasons[5],
      number |-> <<"+","6","0","1","2">>, transcript |-> SampleTranscripts[2],
      messages |-> <<>>, analysisSummary |-> <<>>, summary |-> <<>>,
      startedAt |-> 1000, endedAt |-> 46500,
      recordingUrl |-> "https://rec/a", attio_record_id |-> "rec-1"],
     [id |-> "call-B", status |-> "ended", endedReason |-> SampleEndedReasons[2],
      number |-> <<"6","0","1","9">>, transcript |-> <<>>,
      messages |-> <<>>, analysisSummary |-> <<>>, summary |-> <<>>,
      startedAt |-> 0, endedAt |-> 0,
      recordingUrl |-> "", attio_record_id |-> ""],
     [id |-> "call-C", status |-> "in-progress", endedReason |-> <<>>,
      number |-> <<"6","0","1","9">>, transcript |-> <<>>,
      messages |-> <<>>, analysisSummary |-> <<>>, summary |-> <<>>,
      startedAt |-> 5000, endedAt |-> 0,
      recordingUrl |-> "", attio_record_id |-> ""],
     [id |-> "call-D", status |-> "ended", endedReason |-> <<>>,
      number |-> <<>>, transcript |-> <<>>,
      messages |-> << [role |-> "system", message |-> SampleTranscripts[6]],
                      [role |-> "assistant", message |-> SampleTranscripts[7]],
                      [role |-> "user", message |-> SampleTranscripts[4]] >>,
      analysisSummary |-> <<>>, summary |-> SampleSummaries[4],
      startedAt |-> 2000, endedAt |-> 42999,
      recordingUrl |-> "", attio_record_id |-> ""] >>

RECURSIVE joinWithSpace(_)
joinWithSpace(parts) ==
  IF Len(parts) = 0 THEN <<>>
  ELSE IF Len(parts) = 1 THEN parts[1]
  ELSE parts[1] \o <<" ">> \o joinWithSpace(Tail(parts))

buildTranscriptFromMessages(messages) ==
  IF Len(messages) = 0 THEN <<>>
  ELSE LET spoken == SelectSeq(messages,
                       LAMBDA m : m.role = "assistant" \/ m.role = "user")
           lines == [i \in 1..Len(spoken) |->
                       (IF spoken[i].role = "assistant" THEN strAIPrefix
                        ELSE strUserPrefix) \o spoken[i].message]
       IN  joinWithSpace(lines)

\* Timestamps are milliseconds; 0 stands for an absent startedAt or endedAt.
calculateDuration(startedAt, endedAt) ==
  IF startedAt = 0 \/ endedAt = 0 THEN 0
  ELSE (endedAt - startedAt) \div 1000

processVapiCall(call) ==
  LET transcript == IF call.transcript # <<>> THEN call.transcript
                    ELSE buildTranscriptFromMessages(call.messages)
      summary == IF call.analysisSummary # <<>> THEN call.analysisSummary
                 ELSE IF call.summary # <<>> THEN call.summary
                 ELSE <<>>
      duration == calculateDuration(call.startedAt, call.endedAt)
      endedReason == IF call.endedReason # <<>> THEN call.endedReason
                     ELSE strUnknown
  IN  [callId |-> call.id,
       phoneNumber |-> IF call.number # <<>> THEN call.number ELSE strUnknownPhone,
       duration |-> duration,
       outcome |-> determineCallOutcome(endedReason, transcript, summary, duration),
       endedReason |-> endedReason,
       summary |-> summary,
       recordingUrl |-> call.recordingUrl,
       attioRecordId |-> call.attio_record_id]

\* fetchAndProcessHistoricalCalls: the ended calls of the fetched list, each
\* processed.
processHistoricalCalls(calls) ==
  LET endedCalls == SelectSeq(calls, LAMBDA call : call.status = "ended")
  IN  [i \in 1..Len(endedCalls) |-> processVapiCall(endedCalls[i])]


VARIABLES
  input,         \* the arguments of the function called on its own
  result,        \* what that function returned, "none" before the call
  env,           \* which credentials process.env holds
  wh,            \* POST /webhook/vapi: per request, position and locals
  trace,         \* per request, the calls the handler has made so far
  activityLogs,  \* storage: the activity_logs table (a bag of rows)
  callLogs,      \* storage: the call_logs table (a bag of rows)
  storeFaults,   \* number of inserts the database has rejected
  remoteFaults,  \* number of calls of an import that a remote service failed
  endpoint,      \* which import endpoint the client uses
  attio,         \* the people records of the CRM
  fbLeads,       \* the leads of the Facebook page
  vapiCalls,     \* the calls the voice provider lists
  imp,           \* the import in progress: position, items and results
  finished,      \* the responses of the imports completed so far
  itrace         \* the calls made for each item of the imports

vars ==
  <<input, result, env, wh, trace, activityLogs, callLogs, storeFaults,
    remoteFaults, endpoint, attio, fbLeads, vapiCalls, imp, finished, itrace>>

importVars ==
  <<remoteFaults, endpoint, attio, fbLeads, vapiCalls, imp, finished, itrace>>

classifierVars == <<input, result>>

storeVars == <<activityLogs, callLogs, storeFaults>>

webhookVars == <<env, wh, trace>>

Requests == 1..MaxRequests

NoInput ==
  [endedReason |-> <<>>, transcript |-> <<>>, summary |-> <<>>, duration |-> 0]

ClassifierIdle ==
  /\ input = NoInput
  /\ result = "none"

StoreEmpty ==
  /\ activityLogs = EmptyBag
  /\ callLogs = EmptyBag
  /\ storeFaults = 0

ImportIdle ==
  /\ remoteFaults = 0
  /\ endpoint = "none"
  /\ attio = <<>>
  /\ fbLeads = <<>>
  /\ vapiCalls = <<>>
  /\ imp = [pc |-> "idle"]
  /\ finished = <<>>
  /\ itrace = <<>>

WebhookIdle ==
  /\ wh = [r \in Requests |->
            [pc |-> "idle", p |-> 0, outcome |-> "none",
             telegramSent |-> FALSE, attioUpdated |-> FALSE,
             facebookSent |-> FALSE, response |-> "none",
             httpStatus |-> 0]]
  /\ trace = [r \in Requests |-> <<>>]

(***************************************************************************)
(* Classifier: every sample input is classified once                       *)
(***************************************************************************)
ClassifyInit ==
  /\ \E e \in 1..Len(SampleEndedReasons), t \in 1..Len(SampleTranscripts),
        s \in 1..Len(SampleSummaries), d \in SampleDurations :
        input = [endedReason |-> SampleEndedReasons[e],
                 transcript |-> SampleTranscripts[t],
                 summary |-> SampleSummaries[s],
                 duration |-> d]
  /\ result = "none"
  /\ env \in CredentialSets
  /\ env.telegram
  /\ WebhookIdle
  /\ StoreEmpty
  /\ ImportIdle

Classify ==
  /\ result = "none"
  /\ result' = determineCallOutcome(input.endedReason, input.transcript,
                                    input.summary, input.duration)
  /\ UNCHANGED <<input, webhookVars, storeVars, importVars>>

ClassifyNext == Classify

SpecClassify == ClassifyInit /\ [][ClassifyNext]_vars

(***************************************************************************)
(* updateAttioRecord on its own: the arguments and the answers of the CRM  *)
(* are drawn at the start, one call is made.                               *)
(***************************************************************************)
SampleRecordIds == {"", "rec-1"}

\* Before the call: no value returned, no attempt counted.
NotCalled == [updated |-> FALSE, attempts |-> -1, sent |-> <<>>]

SampleUpdateOptions ==
  [outcome : {"Interested", "No Answer"},
   summary : {<<>>, SampleSummaries[4]},
   recordingUrl : {"", "https://rec/a"}]

UpdateInit ==
  /\ input \in [configured : BOOLEAN, recordId : SampleRecordIds,
                options : SampleUpdateOptions,
                answers : [1..FieldSetCount -> AttioAnswers]]
  /\ result = NotCalled
  /\ env \in CredentialSets
  /\ env.attio
  /\ WebhookIdle
  /\ StoreEmpty
  /\ ImportIdle

CallUpdate ==
  /\ result = NotCalled
  /\ result' =
       [updated |-> updateAttioRecord(input.configured, input.recordId,
                                      input.answers),
        attempts |-> updateAttempts(input.configured, input.recordId,
                                    input.answers),
        sent |-> sentFieldSets(input.configured, input.recordId,
                               input.options, input.answers)]
  /\ UNCHANGED <<input, webhookVars, storeVars, importVars>>

UpdateNext == CallUpdate

SpecUpdate == UpdateInit /\ [][UpdateNext]_vars

(***************************************************************************)
(* The four sinks on their own: one sink is called once, with or without   *)
(* its credentials, and the service answers each request it receives.      *)
(***************************************************************************)
SampleParams == [email |-> <<"a","@","x",".","c","o">>,
                 phone |-> <<"6","0","1","2">>]

SinkInputs ==
  [sink : {"sendTelegramNotification"}, configured : BOOLEAN,
   recordId : {""}, answers : [1..1 -> TelegramAnswers]]
  \cup [sink : {"updateAttioRecord"}, configured : BOOLEAN,
        recordId : SampleRecordIds,
        answers : [1..FieldSetCount -> AttioAnswers]]
  \cup [sink : {"createAttioRecord"}, configured : BOOLEAN,
        recordId : {""}, answers : [1..2 -> CreateAnswers]]
  \cup [sink : {"sendConversionEvent"}, configured : BOOLEAN,
        recordId : {""}, answers : [1..1 -> FacebookAnswers]]

SinkNotCalled ==
  [called |-> FALSE, failure |-> FALSE, requests |-> 0, records |-> 0]

\* What the caller gets back: whether the sink reported failure (false, or
\* null for createAttioRecord) and how many requests it sent; for
\* createAttioRecord also the number of records the CRM holds afterwards,
\* which held none before.
sinkReturn(in) ==
  IF in.sink = "sendTelegramNotification"
  THEN [called |-> TRUE,
        failure |-> ~sendTelegramNotification(in.configured, in.answers[1]),
        requests |-> telegramRequests(in.configured, in.answers[1]),
        records |-> 0]
  ELSE IF in.sink = "updateAttioRecord"
  THEN [called |-> TRUE,
        failure |-> ~updateAttioRecord(in.configured, in.recordId, in.answers),
        requests |-> updateAttempts(in.configured, in.recordId, in.answers),
        records |-> 0]
  ELSE IF in.sink = "createAttioRecord"
  THEN [called |-> TRUE,
        failure |-> createAttioRecord(in.configured, SampleParams,
                                      in.answers, <<>>).recordId = "",
        requests |-> createAttempts(in.configured, SampleParams, in.answers),
        records |-> Len(createAttioRecord(in.configured, SampleParams,
                                          in.answers, <<>>).crm)]
  ELSE [called |-> TRUE,
        failure |-> ~sendConversionEvent(in.configured, in.answers[1]),
        requests |-> conversionRequests(in.configured, in.answers[1]),
        records |-> 0]

SinksInit ==
  /\ input \in SinkInputs
  /\ result = SinkNotCalled
  /\ env \in CredentialSets
  /\ env.attio
  /\ WebhookIdle
  /\ StoreEmpty
  /\ ImportIdle

CallSink ==
  /\ result = SinkNotCalled
  /\ result' = sinkReturn(input)
  /\ UNCHANGED <<input, webhookVars, storeVars, importVars>>

SinksNext == CallSink

SpecSinks == SinksInit /\ [][SinksNext]_vars

(***************************************************************************)
(* sendConversionEvent on its own: the parameters, the credential and the  *)
(* answer of the service are drawn at the start, one call is made.         *)
(***************************************************************************)
ConversionNotCalled ==
  [called |-> FALSE, sent |-> FALSE, requests |-> 0,
   user_data |-> [ph |-> FALSE, em |-> FALSE, lead_id |-> <<>>]]

ConversionInit ==
  /\ \E l \in 1..Len(SampleLeadIds), ph \in 1..Len(SamplePhones),
        em \in 1..Len(SampleEmails), c \in BOOLEAN, a \in FacebookAnswers :
        input = [leadId |-> SampleLeadIds[l], phoneNumber |-> SamplePhones[ph],
                 email |-> SampleEmails[em], configured |-> c, answer |-> a]
  /\ result = ConversionNotCalled
  /\ env \in CredentialSets
  /\ env.facebook
  /\ WebhookIdle
  /\ StoreEmpty
  /\ ImportIdle

CallConversion ==
  /\ result = ConversionNotCalled
  /\ result' =
       [called |-> TRUE,
        sent |-> sendConversionEvent(input.configured, input.answer),
        requests |-> conversionRequests(input.configured, input.answer),
        user_data |-> IF conversionRequests(input.configured, input.answer) = 0
                      THEN ConversionNotCalled.user_data
                      ELSE userDataOf(input)]
  /\ UNCHANGED <<input, webhookVars, storeVars, importVars>>

ConversionNext == CallConversion

SpecConversion == ConversionInit /\ [][ConversionNext]_vars

(***************************************************************************)
(* The duration of a call, as the webhook reads it from the payload and as *)
(* the import computes it from the timestamps of the call.  The source of  *)
(* the duration is drawn at the start, the extraction is made once.        *)
(***************************************************************************)
\* call.duration passes z.number().optional(): any number, 0 for absent.
SamplePayloadDurations == {0, 1, 30, 45, 121, -5}

\* new Date(...).getTime() of startedAt and endedAt in milliseconds; 0 stands
\* for an absent timestamp.
SampleTimestamps == {0, 1000, 1999, 2000, 31000, 46500, 62000, 123000}

DurationInputs ==
  [source : {"webhook"}, duration : SamplePayloadDurations,
   startedAt : {0}, endedAt : {0}]
  \cup
  [source : {"import"}, duration : {0},
   startedAt : SampleTimestamps, endedAt : SampleTimestamps]

DurationNotCalled == [called |-> FALSE, duration |-> 0, outcome |-> ""]

\* The payload or the call the extraction reads: a sample with the drawn
\* duration or timestamps.
payloadWith(in) == [WebhookPayloads[4] EXCEPT !.duration = in.duration]

callWith(in) ==
  [VapiCallSamples[4] EXCEPT !.startedAt = in.startedAt,
                             !.endedAt = in.endedAt]

DurationInit ==
  /\ input \in DurationInputs
  /\ result = DurationNotCalled
  /\ env \in CredentialSets
  /\ env.vapi
  /\ WebhookIdle
  /\ StoreEmpty
  /\ ImportIdle

ExtractDuration ==
  /\ result = DurationNotCalled
  /\ result' =
       IF input.source = "webhook"
       THEN [called |-> TRUE,
             duration |-> durationOf(payloadWith(input)),
             outcome |-> outcomeOf(payloadWith(input))]
       ELSE [called |-> TRUE,
             duration |-> processVapiCall(callWith(input)).duration,
             outcome |-> processVapiCall(callWith(input)).outcome]
  /\ UNCHANGED <<input, webhookVars, storeVars, importVars>>

DurationNext == ExtractDuration

SpecDuration == DurationInit /\ [][DurationNext]_vars

(***************************************************************************)
(* attio.ts: a record is created for a phone number and the number is      *)
(* looked up afterwards, written with or without its leading "+".  The     *)
(* number, the way the lookup writes it and the answer of the CRM to the   *)
(* creation are drawn at the start.                                        *)
(***************************************************************************)
SamplePhoneBodies ==
  { <<"6","0","1","2">>, <<"6","0","1","9">>, <<"6","0","1","2","3">>,
    <<"1">>, <<"5","5","5">>, <<"6","0"," ","1","2">> }

SamplePhonePrefixes == { <<>>, <<"+">>, <<"+","+">> }

SamplePhoneTexts ==
  { prefix \o body : prefix \in SamplePhonePrefixes, body \in SamplePhoneBodies }

\* The phone number p as a caller writes it without and with the leading "+".
withoutPlus(phone) == IF startsWithPlus(phone) THEN Tail(phone) ELSE phone

withPlus(phone) == <<"+">> \o withoutPlus(phone)

PhoneInputs ==
  [phone : SamplePhoneTexts, written : {"with", "without"},
   answers : {<<"ok", "ok">>, <<"other_error", "ok">>}]

PhoneIdle == [stage |-> "idle", crm |-> <<>>, queried |-> <<>>, found |-> ""]

lookupText(in) ==
  IF in.written = "with" THEN withPlus(in.phone) ELSE withoutPlus(in.phone)

PhoneInit ==
  /\ input \in PhoneInputs
  /\ result = PhoneIdle
  /\ env \in CredentialSets
  /\ env.attio
  /\ WebhookIdle
  /\ StoreEmpty
  /\ ImportIdle

CreateForPhone ==
  /\ result.stage = "idle"
  /\ result' =
       [result EXCEPT
          !.stage = "created",
          !.crm = createAttioRecord(env.attio,
                    [email |-> <<>>, phone |-> input.phone],
                    input.answers, <<>>).crm]
  /\ UNCHANGED <<input, webhookVars, storeVars, importVars>>

LookupPhone ==
  /\ result.stage = "created"
  /\ result' =
       [result EXCEPT
          !.stage = "looked up",
          !.queried = normalizedPhone(lookupText(input)),
          !.found = findAttioRecordByPhone(env.attio, lookupText(input),
                                           "ok", result.crm)]
  /\ UNCHANGED <<input, webhookVars, storeVars, importVars>>

PhoneNext ==
  \/ CreateForPhone
  \/ LookupPhone

SpecPhone == PhoneInit /\ [][PhoneNext]_vars

(***************************************************************************)
(* storage.ts and routes.ts: the audit log store and logActivity           *)
(***************************************************************************)
StoreAnswers == IF storeFaults < MaxStoreFaults THEN {TRUE, FALSE} ELSE {TRUE}

faultsAfter(accepted) == IF accepted THEN storeFaults ELSE storeFaults + 1

createActivityLog(activity) == activityLogs (+) SetToBag({activity})

\* A row with the call id of an existing row takes its place.
createCallLog_upsert(log) ==
  LET same == {row \in BagToSet(callLogs) : row.callId = log.callId}
      kept == [row \in BagToSet(callLogs) \ same |-> CopiesIn(row, callLogs)]
  IN  kept (+) SetToBag({log})

createCallLog(log) == callLogs (+) SetToBag({log})

\* logActivity: the insert is awaited inside try/catch; a rejected insert is
\* logged to the console and otherwise ignored.
logActivity(activity, accepted) ==
  IF accepted THEN createActivityLog(activity) ELSE activityLogs

\* One entry per call of the handler: the function, for logActivity the type
\* and status of the activity, and the returned value (for an insert, whether
\* the database accepted it).
Called(r, op, type, status, ok) ==
  [trace EXCEPT ![r] =
     Append(@, [op |-> op, type |-> type, status |-> status, ok |-> ok])]

(***************************************************************************)
(* routes.ts: POST /webhook/vapi, one action per awaited call              *)
(***************************************************************************)
payloadOf(r) == WebhookPayloads[wh[r].p]

activityOf(type, ok, service, direction, details) ==
  [type |-> type, status |-> statusOf(ok), service |-> service,
   direction |-> direction, details |-> details]

\* The outcome is kept in one place shared by all requests.
sinkDetails_sharedOutcome(r) ==
  [callId |-> callIdOf(payloadOf(r)),
   outcome |-> wh[CHOOSE q \in DOMAIN wh : \A o \in DOMAIN wh : o <= q].outcome,
   phone |-> customerPhoneOf(payloadOf(r))]

\* lines 151-168, 207-227: the details of a notification or conversion
\* activity, from the locals of the request.
sinkDetails(r) ==
  [callId |-> callIdOf(payloadOf(r)), outcome |-> wh[r].outcome,
   phone |-> customerPhoneOf(payloadOf(r))]

attioDetails(r) ==
  [recordId |-> payloadOf(r).attio_record_id, outcome |-> wh[r].outcome,
   phone |-> customerPhoneOf(payloadOf(r))]

\* Every valid payload is processed, whatever its event type.
ReceiveWebhook_anyType(r) ==
  /\ wh[r].pc = "idle"
  /\ \E p \in 1..Len(WebhookPayloads) :
       LET payload == WebhookPayloads[p]
       IN  IF ~payload.valid
           THEN wh' = [wh EXCEPT ![r].pc = "done", ![r].p = p,
                                 ![r].response = "ignored",
                                 ![r].httpStatus = 200]
           ELSE wh' = [wh EXCEPT ![r].pc = "logReceived", ![r].p = p]
  /\ UNCHANGED <<classifierVars, importVars, env, trace, storeVars>>

\* lines 75-128: parse, filter on the event type, extract, then start the
\* insert of the "vapi_webhook_received" activity.
ReceiveWebhook(r) ==
  /\ wh[r].pc = "idle"
  /\ \E p \in 1..Len(WebhookPayloads) :
       LET payload == WebhookPayloads[p]
       IN  IF ~payload.valid \/ payload.type # "end-of-call-report"
           THEN wh' = [wh EXCEPT ![r].pc = "done", ![r].p = p,
                                 ![r].response = "ignored",
                                 ![r].httpStatus = 200]
           ELSE wh' = [wh EXCEPT ![r].pc = "logReceived", ![r].p = p]
  /\ UNCHANGED <<classifierVars, importVars, env, trace, storeVars>>

\* lines 131-136: what determineCallOutcome returns for each sample payload.
payloadOutcomes ==
  [p \in DOMAIN WebhookPayloads |-> outcomeOf(WebhookPayloads[p])]

\* lines 121-147: the insert returns, the outcome is determined and
\* sendTelegramNotification is called.
LogWebhookReceived(r) ==
  /\ wh[r].pc = "logReceived"
  /\ \E accepted \in StoreAnswers :
       LET activity ==
             activityOf("vapi_webhook_received", TRUE, "Vapi", "incoming",
                        [callId |-> callIdOf(payloadOf(r)),
                         duration |-> durationOf(payloadOf(r)),
                         endedReason |-> endedReasonOf(payloadOf(r))])
       IN  /\ activityLogs' = logActivity(activity, accepted)
           /\ storeFaults' = faultsAfter(accepted)
           /\ trace' = Called(r, "logActivity", activity.type,
                               activity.status, accepted)
  /\ wh' = [wh EXCEPT ![r].pc = "telegram",
                      ![r].outcome = payloadOutcomes[wh[r].p]]
  /\ UNCHANGED <<classifierVars, importVars, env, callLogs>>

\* A failed notification ends the request with an error.
SendTelegram_throws(r) ==
  /\ wh[r].pc = "telegram"
  /\ \E answer \in TelegramAnswers :
       LET telegramSent == sendTelegramNotification(env.telegram, answer)
       IN  /\ wh' = [wh EXCEPT ![r].pc = IF telegramSent THEN "logTelegram" ELSE "done",
                               ![r].telegramSent = telegramSent,
                               ![r].response = IF telegramSent THEN @ ELSE "error"]
           /\ trace' = Called(r, "sendTelegramNotification", "-", "-", telegramSent)
  /\ UNCHANGED <<classifierVars, importVars, env, storeVars>>

\* lines 141-169: sendTelegramNotification returns and its activity is logged.
SendTelegram(r) ==
  /\ wh[r].pc = "telegram"
  /\ \E answer \in TelegramAnswers :
       LET telegramSent == sendTelegramNotification(env.telegram, answer)
       IN  /\ wh' = [wh EXCEPT ![r].pc = "logTelegram",
                               ![r].telegramSent = telegramSent]
           /\ trace' = Called(r, "sendTelegramNotification", "-", "-", telegramSent)
  /\ UNCHANGED <<classifierVars, importVars, env, storeVars>>

\* A rejected insert of the notification activity ends the request with an
\* error.
LogTelegram_propagates(r) ==
  /\ wh[r].pc = "logTelegram"
  /\ \E accepted \in StoreAnswers :
       LET activity ==
             activityOf("telegram_notification_sent", wh[r].telegramSent,
                        "Telegram", "outgoing", sinkDetails(r))
       IN  /\ activityLogs' = logActivity(activity, accepted)
           /\ storeFaults' = faultsAfter(accepted)
           /\ trace' = Called(r, "logActivity", activity.type,
                               activity.status, accepted)
           /\ wh' = IF accepted
                    THEN [wh EXCEPT ![r].pc =
                            IF payloadOf(r).attio_record_id # ""
                            THEN "attio" ELSE "facebook"]
                    ELSE [wh EXCEPT ![r].pc = "done",
                                    ![r].response = "error",
                                    ![r].httpStatus = 200]
  /\ UNCHANGED <<classifierVars, importVars, env, callLogs>>


\* lines 151-201: the insert returns; updateAttioRecord is called when the
\* payload carries a record id, otherwise the CRM update is skipped.
LogTelegram(r) ==
  /\ wh[r].pc = "logTelegram"
  /\ \E accepted \in StoreAnswers :
       LET activity ==
             activityOf("telegram_notification_sent", wh[r].telegramSent,
                        "Telegram", "outgoing", sinkDetails(r))
       IN  /\ activityLogs' = logActivity(activity, accepted)
           /\ storeFaults' = faultsAfter(accepted)
           /\ trace' = Called(r, "logActivity", activity.type,
                               activity.status, accepted)
  /\ wh' = [wh EXCEPT ![r].pc =
              IF payloadOf(r).attio_record_id # "" THEN "attio" ELSE "facebook"]
  /\ UNCHANGED <<classifierVars, importVars, env, callLogs>>

\* lines 174-177: updateAttioRecord returns.
UpdateAttio(r) ==
  /\ wh[r].pc = "attio"
  /\ \E answers \in [1..FieldSetCount -> AttioAnswers] :
       LET attioUpdated ==
             updateAttioRecord(env.attio, payloadOf(r).attio_record_id, answers)
       IN  /\ wh' = [wh EXCEPT ![r].pc = "logAttio",
                               ![r].attioUpdated = attioUpdated]
           /\ trace' = Called(r, "updateAttioRecord", "-", "-", attioUpdated)
  /\ UNCHANGED <<classifierVars, importVars, env, storeVars>>

\* After a failed CRM update the handler goes straight to the call log.
LogAttio_endsOnFailure(r) ==
  /\ wh[r].pc = "logAttio"
  /\ \E accepted \in StoreAnswers :
       LET activity ==
             activityOf("attio_record_updated", wh[r].attioUpdated,
                        "Attio", "outgoing", attioDetails(r))
       IN  /\ activityLogs' = logActivity(activity, accepted)
           /\ storeFaults' = faultsAfter(accepted)
           /\ trace' = Called(r, "logActivity", activity.type,
                               activity.status, accepted)
  /\ wh' = [wh EXCEPT ![r].pc =
              IF wh[r].attioUpdated THEN "facebook" ELSE "callLog"]
  /\ UNCHANGED <<classifierVars, importVars, env, callLogs>>

\* lines 178-207: the insert returns and sendConversionEvent is called.
LogAttio(r) ==
  /\ wh[r].pc = "logAttio"
  /\ \E accepted \in StoreAnswers :
       LET activity ==
             activityOf("attio_record_updated", wh[r].attioUpdated,
                        "Attio", "outgoing", attioDetails(r))
       IN  /\ activityLogs' = logActivity(activity, accepted)
           /\ storeFaults' = faultsAfter(accepted)
           /\ trace' = Called(r, "logActivity", activity.type,
                               activity.status, accepted)
  /\ wh' = [wh EXCEPT ![r].pc = "facebook"]
  /\ UNCHANGED <<classifierVars, importVars, env, callLogs>>

\* A conversion call that fails leaves the handler waiting for ever.
SendConversion_hangs(r) ==
  /\ wh[r].pc = "facebook"
  /\ \E answer \in FacebookAnswers :
       LET facebookSent == sendConversionEvent(env.facebook, answer)
       IN  /\ wh' = [wh EXCEPT ![r].pc = IF facebookSent THEN "logFacebook"
                                                         ELSE "hung",
                               ![r].facebookSent = facebookSent]
           /\ trace' = Called(r, "sendConversionEvent", "-", "-", facebookSent)
  /\ UNCHANGED <<classifierVars, importVars, env, storeVars>>

\* lines 204-207: sendConversionEvent returns.
SendConversion(r) ==
  /\ wh[r].pc = "facebook"
  /\ \E answer \in FacebookAnswers :
       LET facebookSent == sendConversionEvent(env.facebook, answer)
       IN  /\ wh' = [wh EXCEPT ![r].pc = "logFacebook",
                               ![r].facebookSent = facebookSent]
           /\ trace' = Called(r, "sendConversionEvent", "-", "-", facebookSent)
  /\ UNCHANGED <<classifierVars, importVars, env, storeVars>>

\* Only a successful conversion event is logged.
LogConversion_onlySuccess(r) ==
  /\ wh[r].pc = "logFacebook"
  /\ \E accepted \in StoreAnswers :
       LET activity ==
             activityOf("facebook_conversion_sent", wh[r].facebookSent,
                        "Facebook", "outgoing", sinkDetails(r))
       IN  IF wh[r].facebookSent
           THEN /\ activityLogs' = logActivity(activity, accepted)
                /\ storeFaults' = faultsAfter(accepted)
                /\ trace' = Called(r, "logActivity", activity.type,
                                    activity.status, accepted)
           ELSE UNCHANGED <<activityLogs, storeFaults, trace>>
  /\ wh' = [wh EXCEPT ![r].pc = "callLog"]
  /\ UNCHANGED <<classifierVars, importVars, env, callLogs>>

\* lines 209-240: the insert returns and the call log insert is started.
LogConversion(r) ==
  /\ wh[r].pc = "logFacebook"
  /\ \E accepted \in StoreAnswers :
       LET activity ==
             activityOf("facebook_conversion_sent", wh[r].facebookSent,
                        "Facebook", "outgoing", sinkDetails(r))
       IN  /\ activityLogs' = logActivity(activity, accepted)
           /\ storeFaults' = faultsAfter(accepted)
           /\ trace' = Called(r, "logActivity", activity.type,
                               activity.status, accepted)
  /\ wh' = [wh EXCEPT ![r].pc = "callLog"]
  /\ UNCHANGED <<classifierVars, importVars, env, callLogs>>

callLogOf_attioAssumed(r) ==
  [callId |-> callIdOf(payloadOf(r)),
   customerPhone |-> customerPhoneOf(payloadOf(r)),
   duration |-> durationOf(payloadOf(r)),
   outcome |-> wh[r].outcome,
   summary |-> payloadOf(r).summary,
   endedReason |-> endedReasonOf(payloadOf(r)),
   telegramSent |-> wh[r].telegramSent,
   attioUpdated |-> payloadOf(r).attio_record_id # ""]

\* lines 231-240: the record given to createCallLog.
callLogOf(r) ==
  [callId |-> callIdOf(payloadOf(r)),
   customerPhone |-> customerPhoneOf(payloadOf(r)),
   duration |-> durationOf(payloadOf(r)),
   outcome |-> wh[r].outcome,
   summary |-> payloadOf(r).summary,
   endedReason |-> endedReasonOf(payloadOf(r)),
   telegramSent |-> wh[r].telegramSent,
   attioUpdated |-> wh[r].attioUpdated]

responseAfterCallLog_noCatch(accepted) == "success"

\* The status of the response after the call log insert returned or threw
\* (lines 243-256).
responseAfterCallLog(accepted) == IF accepted THEN "success" ELSE "error"

httpStatusAfterCallLog_serverError(accepted) == IF accepted THEN 200 ELSE 500

\* The HTTP status of that response (lines 250 and 253).
httpStatusAfterCallLog(accepted) == 200

\* lines 231-257: createCallLog returns and the response is sent, or it throws
\* and the catch block answers with status "error".
StoreCallLog(r) ==
  /\ wh[r].pc = "callLog"
  /\ \E accepted \in StoreAnswers :
       /\ callLogs' = IF accepted THEN createCallLog(callLogOf(r)) ELSE callLogs
       /\ storeFaults' = faultsAfter(accepted)
       /\ trace' = Called(r, "createCallLog", "-", "-", accepted)
       /\ wh' = [wh EXCEPT ![r].pc = "done",
                           ![r].response = responseAfterCallLog(accepted),
                           ![r].httpStatus = httpStatusAfterCallLog(accepted)]
  /\ UNCHANGED <<classifierVars, importVars, env, activityLogs>>

Init ==
  /\ ClassifierIdle
  /\ env \in CredentialSets
  /\ WebhookIdle
  /\ StoreEmpty
  /\ ImportIdle

Next ==
  \/ \E r \in DOMAIN wh : ReceiveWebhook(r)
  \/ \E r \in DOMAIN wh : LogWebhookReceived(r)
  \/ \E r \in DOMAIN wh : SendTelegram(r)
  \/ \E r \in DOMAIN wh : LogTelegram(r)
  \/ \E r \in DOMAIN wh : UpdateAttio(r)
  \/ \E r \in DOMAIN wh : LogAttio(r)
  \/ \E r \in DOMAIN wh : SendConversion(r)
  \/ \E r \in DOMAIN wh : LogConversion(r)
  \/ \E r \in DOMAIN wh : StoreCallLog(r)

Spec == Init /\ [][Next]_vars

\* The steps of the handler after it has accepted a request: each one is the
\* continuation of an await, run by the event loop once the awaited call has
\* returned.
Continue(r) ==
  \/ LogWebhookReceived(r)
  \/ SendTelegram(r)
  \/ LogTelegram(r)
  \/ UpdateAttio(r)
  \/ LogAttio(r)
  \/ SendConversion(r)
  \/ LogConversion(r)
  \/ StoreCallLog(r)

\* Every awaited call returns (or throws), so an accepted request is never
\* left waiting: its next step is taken.  The arrival of a request is not
\* forced.
SpecLive == Init /\ [][Next]_vars /\ \A r \in Requests : WF_vars(Continue(r))

(***************************************************************************)
(* Two requests to POST /webhook/vapi in flight together: each await is a  *)
(* point where the other handler may run.                                  *)
(***************************************************************************)
TwoRequests == {1, 2}

ConcurrentInit ==
  /\ ClassifierIdle
  /\ env \in CredentialSets
  /\ wh = [r \in TwoRequests |->
            [pc |-> "idle", p |-> 0, outcome |-> "none",
             telegramSent |-> FALSE, attioUpdated |-> FALSE,
             facebookSent |-> FALSE, response |-> "none",
             httpStatus |-> 0]]
  /\ trace = [r \in TwoRequests |-> <<>>]
  /\ StoreEmpty
  /\ ImportIdle

SpecConcurrent == ConcurrentInit /\ [][Next]_vars

(***************************************************************************)
(* The reconciliation imports                                              *)
(***************************************************************************)
MaxLeads == 2

MaxImports == 2

MaxRemoteFaults == 1

LeadSamples ==
  << [leadId |-> "lead-1", name |-> "Ann Lee",
      email |-> <<"a","@","x",".","c","o">>, phone |-> <<"6","0","1","2">>],
     [leadId |-> "lead-2", name |-> "",
      email |-> <<>>, phone |-> <<"+","6","0","1","2">>],
     [leadId |-> "lead-3", name |-> "Ann",
      email |-> <<"A","@","x",".","c","o">>, phone |-> <<>>] >>

CrmSamples ==
  { <<>>,
    << [record_id |-> "rec-1", email |-> <<>>, phone |-> <<"+","6","0","1","9">>] >> }

RECURSIVE ascending(_)
ascending(indexes) ==
  IF indexes = {} THEN <<>>
  ELSE LET least == CHOOSE i \in indexes : \A j \in indexes : i <= j
       IN  <<least>> \o ascending(indexes \ {least})

\* The lists of at most max of the samples, in the order of the samples.
Selections(samples, max) ==
  { [i \in 1..Cardinality(chosen) |-> samples[ascending(chosen)[i]]] :
      chosen \in {c \in SUBSET (1..Len(samples)) : Cardinality(c) <= max} }

ImportInit ==
  /\ ClassifierIdle
  /\ env \in CredentialSets
  /\ WebhookIdle
  /\ StoreEmpty
  /\ remoteFaults = 0
  /\ \/ /\ endpoint = "calls"
        /\ vapiCalls \in Selections(VapiCallSamples, MaxBatch)
        /\ fbLeads = <<>>
        /\ attio \in CrmSamples
     \/ /\ endpoint = "leads"
        /\ fbLeads \in Selections(LeadSamples, MaxLeads)
        /\ vapiCalls = <<>>
        /\ attio = <<>>
  /\ imp = [pc |-> "idle"]
  /\ finished = <<>>
  /\ itrace = <<>>

Entry(op, type, status, ok, answered) ==
  [run |-> Len(finished) + 1, item |-> imp.i, op |-> op, type |-> type,
   status |-> status, ok |-> ok, answered |-> answered]

Responded(kind, httpStatus, status, results) ==
  Append(finished, [kind |-> kind, httpStatus |-> httpStatus,
                    status |-> status, results |-> results])

\* The answers of a remote service to a call of an import: any of them while
\* the service may still fail, success afterwards and when it is not called.
RemoteAnswers(called, answers, used) ==
  IF called /\ remoteFaults + used < MaxRemoteFaults THEN answers ELSE {"ok"}

failedCalls(called, succeeded) == IF called /\ ~succeeded THEN 1 ELSE 0

\* services/vapi.ts, fetchHistoricalCalls: throws without the API key or on a
\* response that is not OK.
fetchHistoricalCallsThrows(configured, answer) ==
  ~configured \/ answer # "ok"

\* routes.ts lines 261-284 and 341-347: POST /api/import-historical fetches
\* and processes the calls; a throw of the fetch is answered with status 500.
StartCallImport ==
  /\ endpoint = "calls"
  /\ imp.pc = "idle"
  /\ Len(finished) < MaxImports
  /\ \E answer \in RemoteAnswers(env.vapi, {"ok", "not_ok"}, 0) :
       /\ remoteFaults' = remoteFaults + failedCalls(env.vapi, answer = "ok")
       /\ IF fetchHistoricalCallsThrows(env.vapi, answer)
          THEN /\ finished' = Responded("calls", 500, "error", [total |-> 0])
               /\ UNCHANGED imp
          ELSE /\ imp' = [pc |-> "loop", kind |-> "calls",
                          items |-> processHistoricalCalls(vapiCalls), i |-> 1,
                          results |->
                            [total |-> Len(processHistoricalCalls(vapiCalls)),
                             processed |-> 0, attioUpdated |-> 0,
                             errors |-> <<>>, calls |-> <<>>]]
               /\ UNCHANGED finished
  /\ UNCHANGED <<classifierVars, webhookVars, storeVars, endpoint, attio,
                 fbLeads, vapiCalls, itrace>>

\* routes.ts lines 317-325: the call log was stored.
callProcessed(results, row) ==
  [results EXCEPT !.processed = @ + 1, !.calls = Append(@, row)]

callFailed_countsProcessed(results, callId) ==
  [results EXCEPT !.processed = @ + 1, !.errors = Append(@, callId)]

\* routes.ts lines 328-332: the catch of the loop body.
callFailed(results, callId) ==
  [results EXCEPT !.errors = Append(@, callId)]

\* routes.ts lines 286-333: one iteration of the loop over the calls.
ImportCall ==
  /\ imp.pc = "loop"
  /\ imp.kind = "calls"
  /\ imp.i <= Len(imp.items)
  /\ LET call == imp.items[imp.i]
         lookup == /\ call.attioRecordId = ""
                   /\ call.phoneNumber # <<>>
                   /\ call.phoneNumber # strUnknownPhone
     IN
     \E lookupAnswer \in RemoteAnswers(env.attio /\ lookup, LookupAnswers, 0) :
     LET found == IF lookup
                  THEN findAttioRecordByPhone(env.attio, call.phoneNumber,
                                              lookupAnswer, attio)
                  ELSE ""
         recordId == IF call.attioRecordId # "" THEN call.attioRecordId
                     ELSE found
     IN
     \E answers \in [1..FieldSetCount ->
                       RemoteAnswers(env.attio /\ recordId # "", AttioAnswers,
                                     failedCalls(env.attio /\ lookup,
                                            lookupAnswer = "ok"))],
        accepted \in StoreAnswers :
     LET attioUpdated == IF recordId # ""
                         THEN updateAttioRecord(env.attio, recordId, answers)
                         ELSE FALSE
         unanswered == failedCalls(env.attio /\ lookup, lookupAnswer = "ok")
                         + failedCalls(env.attio /\ recordId # "", attioUpdated)
         updatedCount == imp.results.attioUpdated
                           + (IF attioUpdated THEN 1 ELSE 0)
         log == [callId |-> call.callId,
                 customerPhone |-> call.phoneNumber,
                 duration |-> call.duration,
                 outcome |-> call.outcome,
                 summary |-> call.summary,
                 endedReason |-> call.endedReason,
                 telegramSent |-> FALSE,
                 attioUpdated |-> attioUpdated]
         row == [callId |-> call.callId, phoneNumber |-> call.phoneNumber,
                 outcome |-> call.outcome, attioUpdated |-> attioUpdated,
                 duration |-> call.duration]
     IN  /\ callLogs' = IF accepted THEN createCallLog(log) ELSE callLogs
         /\ storeFaults' = faultsAfter(accepted)
         /\ remoteFaults' = remoteFaults + unanswered
         /\ imp' =
              [imp EXCEPT
                 !.i = @ + 1,
                 !.results =
                   IF accepted
                   THEN callProcessed([@ EXCEPT !.attioUpdated = updatedCount],
                                      row)
                   ELSE callFailed([@ EXCEPT !.attioUpdated = updatedCount],
                                   call.callId)]
         /\ itrace' = itrace
              \o (IF lookup
                  THEN <<Entry("findAttioRecordByPhone", "-", "-", found # "",
                               phoneLookupAnswered(env.attio, call.phoneNumber,
                                                   lookupAnswer))>>
                  ELSE <<>>)
              \o (IF recordId # ""
                  THEN <<Entry("updateAttioRecord", "-", "-", attioUpdated,
                               TRUE)>>
                  ELSE <<>>)
              \o <<Entry("createCallLog", "-", "-", accepted, TRUE)>>
  /\ UNCHANGED <<classifierVars, webhookVars, activityLogs, endpoint, attio,
                 fbLeads, vapiCalls, finished>>

\* routes.ts lines 335-340: the loop is over and the results are returned.
FinishCallImport ==
  /\ imp.pc = "loop"
  /\ imp.kind = "calls"
  /\ imp.i > Len(imp.items)
  /\ finished' = Responded("calls", 200, "success", imp.results)
  /\ imp' = [pc |-> "idle"]
  /\ UNCHANGED <<classifierVars, webhookVars, remoteFaults, storeVars, endpoint, attio,
                 fbLeads, vapiCalls, itrace>>

\* routes.ts lines 352-372: POST /api/import-facebook-leads answers 400
\* without a page id, otherwise starts the insert of the "pending" activity.
StartLeadImport ==
  /\ endpoint = "leads"
  /\ imp.pc = "idle"
  /\ Len(finished) < MaxImports
  /\ \E bodyPageId \in BOOLEAN :
       IF ~(bodyPageId \/ env.pageId)
       THEN /\ finished' = Responded("leads", 400, "error", [total |-> 0])
            /\ UNCHANGED imp
       ELSE /\ imp' = [pc |-> "pending", kind |-> "leads", i |-> 0]
            /\ UNCHANGED finished
  /\ UNCHANGED <<classifierVars, webhookVars, remoteFaults, storeVars, endpoint, attio,
                 fbLeads, vapiCalls, itrace>>

\* routes.ts lines 365-374: the insert returns and fetchAllLeadsFromPage is
\* called.
LogImportStarted ==
  /\ imp.pc = "pending"
  /\ \E accepted \in StoreAnswers :
       LET activity == activityOf("facebook_lead_received", TRUE, "Facebook",
                                  "incoming", [pageId |-> "page"])
           pending == [activity EXCEPT !.status = "pending"]
       IN  /\ activityLogs' = logActivity(pending, accepted)
           /\ storeFaults' = faultsAfter(accepted)
           /\ itrace' = Append(itrace, Entry("logActivity", pending.type,
                                             pending.status, accepted, TRUE))
  /\ imp' = [imp EXCEPT !.pc = "fetch"]
  /\ UNCHANGED <<classifierVars, webhookVars, remoteFaults, callLogs, endpoint, attio,
                 fbLeads, vapiCalls, finished>>

\* services/facebook.ts, fetchAllLeadsFromPage: the leads of the page, or none
\* without the access token or when the forms cannot be fetched.
fetchAllLeadsFromPage(configured, answer, leads) ==
  IF ~configured THEN <<>>
  ELSE IF answer # "ok" THEN <<>>
  ELSE leads

\* routes.ts lines 374-389: the leads are fetched and the results start empty.
FetchLeads ==
  /\ imp.pc = "fetch"
  /\ \E answer \in RemoteAnswers(env.facebook, {"ok", "not_ok"}, 0) :
       LET leads == fetchAllLeadsFromPage(env.facebook, answer, fbLeads)
       IN  /\ imp' = [pc |-> "loop", kind |-> "leads", items |-> leads,
                      i |-> 1,
                      results |-> [total |-> Len(leads), created |-> 0,
                                   skipped |-> 0, errors |-> <<>>,
                                   leads |-> <<>>]]
           /\ remoteFaults' = remoteFaults + failedCalls(env.facebook, answer = "ok")
  /\ UNCHANGED <<classifierVars, webhookVars, storeVars, endpoint, attio,
                 fbLeads, vapiCalls, finished, itrace>>

emailLookupNeeded_always(existingRecordId, email) == email # <<>>

\* routes.ts line 400: if (!existingRecordId && lead.email).
emailLookupNeeded(existingRecordId, email) ==
  existingRecordId = "" /\ email # <<>>

\* routes.ts lines 391-458: one iteration of the loop over the leads.
ImportLead ==
  /\ imp.pc = "loop"
  /\ imp.kind = "leads"
  /\ imp.i <= Len(imp.items)
  /\ LET lead == imp.items[imp.i]
         row(status, recordId) ==
           [leadId |-> lead.leadId, status |-> status,
            attioRecordId |-> recordId]
     IN
     \E phoneAnswer \in RemoteAnswers(env.attio /\ lead.phone # <<>>,
                                      LookupAnswers, 0) :
     LET byPhone == IF lead.phone # <<>>
                    THEN findAttioRecordByPhone(env.attio, lead.phone,
                                                phoneAnswer, attio)
                    ELSE ""
         emailLookup == emailLookupNeeded(byPhone, lead.email)
         phoneFailed == failedCalls(env.attio /\ lead.phone # <<>>,
                               phoneAnswer = "ok")
     IN
     \E emailAnswer \in RemoteAnswers(env.attio /\ emailLookup, LookupAnswers,
                                      phoneFailed) :
     LET byEmail == IF emailLookup
                    THEN findAttioRecordByEmail(env.attio, lead.email,
                                                emailAnswer, attio)
                    ELSE ""
         existingRecordId == IF byPhone # "" THEN byPhone ELSE byEmail
         lookupsFailed == phoneFailed
                            + failedCalls(env.attio /\ emailLookup,
                                     emailAnswer = "ok")
         lookups ==
           (IF lead.phone # <<>>
            THEN <<Entry("findAttioRecordByPhone", "-", "-", byPhone # "",
                         phoneLookupAnswered(env.attio, lead.phone,
                                             phoneAnswer))>>
            ELSE <<>>)
           \o (IF emailLookup
               THEN <<Entry("findAttioRecordByEmail", "-", "-", byEmail # "",
                            env.attio /\ emailAnswer = "ok")>>
               ELSE <<>>)
     IN
     IF existingRecordId # ""
     THEN /\ imp' = [imp EXCEPT
                       !.i = @ + 1,
                       !.results.skipped = @ + 1,
                       !.results.leads =
                         Append(@, row("skipped", existingRecordId))]
          /\ itrace' = itrace \o lookups
          /\ remoteFaults' = remoteFaults + lookupsFailed
          /\ UNCHANGED <<attio, activityLogs, storeFaults>>
     ELSE
     \E first \in RemoteAnswers(env.attio, CreateAnswers, lookupsFailed) :
     \E second \in RemoteAnswers(env.attio /\ first = "lead_status_error",
                                 CreateAnswers, lookupsFailed) :
     LET creation == createAttioRecord(env.attio, lead, <<first, second>>,
                                       attio)
         activity == activityOf("attio_record_created", TRUE, "Attio",
                                "outgoing",
                                [recordId |-> creation.recordId,
                                 leadId |-> lead.leadId])
     IN
     IF creation.recordId # ""
     THEN \E accepted \in StoreAnswers :
          /\ imp' = [imp EXCEPT
                       !.i = @ + 1,
                       !.results.created = @ + 1,
                       !.results.leads =
                         Append(@, row("created", creation.recordId))]
          /\ attio' = creation.crm
          /\ remoteFaults' = remoteFaults + lookupsFailed
          /\ activityLogs' = logActivity(activity, accepted)
          /\ storeFaults' = faultsAfter(accepted)
          /\ itrace' = itrace \o lookups
               \o <<Entry("createAttioRecord", "-", "-", TRUE, TRUE),
                    Entry("logActivity", activity.type, activity.status,
                          accepted, TRUE)>>
     ELSE /\ imp' = [imp EXCEPT
                       !.i = @ + 1,
                       !.results.errors = Append(@, lead.leadId),
                       !.results.leads = Append(@, row("error", ""))]
          /\ attio' = creation.crm
          /\ remoteFaults' = remoteFaults + lookupsFailed + failedCalls(env.attio, FALSE)
          /\ itrace' = itrace \o lookups
               \o <<Entry("createAttioRecord", "-", "-", FALSE, TRUE)>>
          /\ UNCHANGED <<activityLogs, storeFaults>>
  /\ UNCHANGED <<classifierVars, webhookVars, callLogs, endpoint, fbLeads,
                 vapiCalls, finished>>

\* routes.ts lines 460-474: the closing activity is logged and the results
\* are returned.
LogImportFinished ==
  /\ imp.pc = "loop"
  /\ imp.kind = "leads"
  /\ imp.i > Len(imp.items)
  /\ \E accepted \in StoreAnswers :
       LET activity ==
             activityOf("facebook_lead_received", Len(imp.results.errors) = 0,
                        "Facebook", "incoming",
                        [pageId |-> "page", total |-> imp.results.total,
                         created |-> imp.results.created,
                         skipped |-> imp.results.skipped])
       IN  /\ activityLogs' = logActivity(activity, accepted)
           /\ storeFaults' = faultsAfter(accepted)
           /\ itrace' = Append(itrace, Entry("logActivity", activity.type,
                                             activity.status, accepted, TRUE))
  /\ finished' = Responded("leads", 200, "success", imp.results)
  /\ imp' = [pc |-> "idle"]
  /\ UNCHANGED <<classifierVars, webhookVars, remoteFaults, callLogs, endpoint, attio,
                 fbLeads, vapiCalls>>

ImportNext ==
  \/ StartCallImport
  \/ ImportCall
  \/ FinishCallImport
  \/ StartLeadImport
  \/ LogImportStarted
  \/ FetchLeads
  \/ ImportLead
  \/ LogImportFinished

SpecImport == ImportInit /\ [][ImportNext]_vars

(***************************************************************************)
(* routes.ts, POST /webhook/facebook: the live lead webhook.  A delivery   *)
(* carries one leadgen change for one of the leads of the page, or no      *)
(* leadgen change.  Deliveries and lead imports arrive one after the       *)
(* other, in any order; the actions of the import are the ones above.  The *)
(* delivery in flight is kept in `input` and the number of deliveries      *)
(* answered in `result`.                                                   *)
(***************************************************************************)
MaxLeadRequests == 2

\* The deliveries and imports received so far.
leadRequests == result.answered + Len(finished)

LeadWebhookIdle ==
  [pc |-> "idle", lead |-> 0, leadDetails |-> FALSE, recordId |-> ""]

\* services/facebook.ts, fetchLeadDetails: whether the details of the lead are
\* returned; null without the access token, on a response that is not OK and
\* on a thrown request.
fetchLeadDetails(configured, answer) == configured /\ answer = "ok"

\* One entry of the history for a call the live lead webhook makes for lead k.
LeadEntry(k, op, type, status, ok) ==
  [run |-> 0, item |-> k, op |-> op, type |-> type, status |-> status,
   ok |-> ok, answered |-> TRUE]

\* lines 576, 580: res.status(200).send("EVENT_RECEIVED").
EventReceived ==
  /\ input' = LeadWebhookIdle
  /\ result' = [answered |-> result.answered + 1]

LeadsInit ==
  /\ input = LeadWebhookIdle
  /\ result = [answered |-> 0]
  /\ env \in CredentialSets
  /\ WebhookIdle
  /\ StoreEmpty
  /\ remoteFaults = 0
  /\ endpoint = "leads"
  /\ fbLeads \in Selections(LeadSamples, MaxLeads)
  /\ vapiCalls = <<>>
  /\ attio = <<>>
  /\ imp = [pc |-> "idle"]
  /\ finished = <<>>
  /\ itrace = <<>>

\* lines 502-520: the body is read; for a leadgen change the details of the
\* lead are fetched, a body without one is answered at once.
ReceiveLead ==
  /\ input.pc = "idle"
  /\ imp.pc = "idle"
  /\ leadRequests < MaxLeadRequests
  /\ \/ /\ EventReceived
        /\ UNCHANGED remoteFaults
     \/ \E k \in DOMAIN fbLeads :
        \E answer \in RemoteAnswers(env.facebook, FacebookAnswers, 0) :
          /\ input' = [pc |-> "logReceived", lead |-> k,
                       leadDetails |-> fetchLeadDetails(env.facebook, answer),
                       recordId |-> ""]
          /\ remoteFaults' =
               remoteFaults + failedCalls(env.facebook, answer = "ok")
          /\ UNCHANGED result
  /\ UNCHANGED <<webhookVars, storeVars, endpoint, attio, fbLeads, vapiCalls,
                 imp, finished, itrace>>

\* lines 522-530: the activity "facebook_lead_received" is logged.
LogLeadReceived ==
  /\ input.pc = "logReceived"
  /\ \E accepted \in StoreAnswers :
       LET activity == activityOf("facebook_lead_received", TRUE, "Facebook",
                                  "incoming",
                                  [leadId |-> fbLeads[input.lead].leadId])
       IN  /\ activityLogs' = logActivity(activity, accepted)
           /\ storeFaults' = faultsAfter(accepted)
           /\ itrace' = Append(itrace,
                               LeadEntry(input.lead, "logActivity",
                                         activity.type, activity.status,
                                         accepted))
  /\ input' = [input EXCEPT !.pc = "create"]
  /\ UNCHANGED <<result, webhookVars, remoteFaults, callLogs, endpoint, attio,
                 fbLeads, vapiCalls, imp, finished>>

\* lines 532-538 and 558-563: the record is created from the details of the
\* lead, or as a placeholder that carries only a name when there are none.
\* A placeholder that could not be created is not logged (lines 565-576).
CreateLeadRecord ==
  /\ input.pc = "create"
  /\ LET lead == fbLeads[input.lead]
         params == IF input.leadDetails THEN lead
                   ELSE [leadId |-> lead.leadId, name |-> "Facebook Lead",
                         email |-> <<>>, phone |-> <<>>]
     IN
     \E first \in RemoteAnswers(env.attio, CreateAnswers, 0) :
     \E second \in RemoteAnswers(env.attio /\ first = "lead_status_error",
                                 CreateAnswers, 0) :
       LET creation == createAttioRecord(env.attio, params, <<first, second>>,
                                         attio)
       IN  /\ attio' = creation.crm
           /\ remoteFaults' =
                remoteFaults + failedCalls(env.attio, creation.recordId # "")
           /\ itrace' = Append(itrace,
                               LeadEntry(input.lead, "createAttioRecord", "-",
                                         "-", creation.recordId # ""))
           /\ IF input.leadDetails \/ creation.recordId # ""
              THEN /\ input' = [input EXCEPT !.pc = "logCreated",
                                             !.recordId = creation.recordId]
                   /\ UNCHANGED result
              ELSE EventReceived
  /\ UNCHANGED <<webhookVars, storeVars, endpoint, fbLeads, vapiCalls, imp,
                 finished>>

\* lines 540-557 and 565-576: the activity "attio_record_created" is logged
\* and the delivery is answered.
LogLeadRecord ==
  /\ input.pc = "logCreated"
  /\ \E accepted \in StoreAnswers :
       LET activity == activityOf("attio_record_created", input.recordId # "",
                                  "Attio", "outgoing",
                                  [recordId |-> input.recordId,
                                   leadId |-> fbLeads[input.lead].leadId])
       IN  /\ activityLogs' = logActivity(activity, accepted)
           /\ storeFaults' = faultsAfter(accepted)
           /\ itrace' = Append(itrace,
                               LeadEntry(input.lead, "logActivity",
                                         activity.type, activity.status,
                                         accepted))
  /\ EventReceived
  /\ UNCHANGED <<webhookVars, remoteFaults, callLogs, endpoint, attio, fbLeads,
                 vapiCalls, imp, finished>>

LeadsNext ==
  \/ ReceiveLead
  \/ LogLeadReceived
  \/ CreateLeadRecord
  \/ LogLeadRecord
  \/ /\ input.pc = "idle"
     /\ leadRequests < MaxLeadRequests
     /\ StartLeadImport
  \/ LogImportStarted
  \/ FetchLeads
  \/ ImportLead
  \/ LogImportFinished

SpecLeads == LeadsInit /\ [][LeadsNext]_vars

(***************************************************************************)
(* services/facebook.ts, fetchLeadsFromForm: the loop over the pages of    *)
(* leads of one form.  The source is drawn at the start: for every page    *)
(* URL, how many leads the page holds and which page its paging.next names *)
(* (0 for none).  A page may name any page as the next one.  The leads are *)
(* counted: the loop reads only their number.                              *)
(***************************************************************************)
MaxPages == 2

MaxLeadsCollected == 500

Pages == 1..MaxPages

SamplePageSizes == {0, 1, 100}

PageAnswers == {"ok", "not_ok", "throws"}

PageSources ==
  [configured : BOOLEAN, size : [Pages -> SamplePageSizes],
   next : [Pages -> Pages \cup {0}]]

\* Before the call.  url is the page to request next, leads the number of
\* leads pushed to the list so far, returned the length of the list the call
\* returned, failure the way a page request failed.
FetchIdle ==
  [pc |-> "idle", url |-> 0, leads |-> 0, returned |-> 0, failure |-> "none"]

PagesInit ==
  /\ input \in PageSources
  /\ result = FetchIdle
  /\ env \in CredentialSets
  /\ env.facebook
  /\ WebhookIdle
  /\ StoreEmpty
  /\ ImportIdle

\* line 479: while (url && leads.length < 500).
morePages(url, leads) == url # 0 /\ leads < MaxLeadsCollected

\* lines 469-477: without the access token the call returns the empty list;
\* otherwise the list starts empty and url is the first page of the form.
StartFetch ==
  /\ result.pc = "idle"
  /\ result' = IF ~input.configured
               THEN [result EXCEPT !.pc = "returned"]
               ELSE [result EXCEPT !.pc = "loop", !.url = 1]
  /\ UNCHANGED <<input, webhookVars, storeVars, importVars>>

\* lines 479-528: one iteration.  A response that is not OK leaves the loop
\* and the list is returned; a thrown request is caught and the empty list is
\* returned; otherwise the leads of the page are pushed, url becomes the next
\* link, and the list is returned once the loop condition fails.
FetchPage ==
  /\ result.pc = "loop"
  /\ morePages(result.url, result.leads)
  /\ \E answer \in PageAnswers :
       result' =
         IF answer = "not_ok"
         THEN [result EXCEPT !.pc = "returned", !.returned = result.leads,
                             !.failure = "not_ok"]
         ELSE IF answer = "throws"
         THEN [result EXCEPT !.pc = "returned", !.returned = 0,
                             !.failure = "throws"]
         ELSE LET leads == result.leads + input.size[result.url]
                  url == input.next[result.url]
              IN  IF morePages(url, leads)
                  THEN [result EXCEPT !.url = url, !.leads = leads]
                  ELSE [result EXCEPT !.pc = "returned", !.url = url,
                                      !.leads = leads, !.returned = leads]
  /\ UNCHANGED <<input, webhookVars, storeVars, importVars>>

PagesNext ==
  \/ StartFetch
  \/ FetchPage

SpecPages == PagesInit /\ [][PagesNext]_vars

\* The loop is one async function: each iteration is the continuation of the
\* awaited fetch, which the event loop runs once the request has settled.
SpecPagesLive == PagesInit /\ [][PagesNext]_vars /\ WF_vars(FetchPage)

(***************************************************************************)
(* Properties of the classifier                                            *)
(***************************************************************************)
RuleHolds(i, in) ==
  LET combined == combinedText(in.transcript, in.summary)
  IN  CASE i = 1 -> isNoAnswer(in.endedReason)
        [] i = 2 -> isVoicemail(in.endedReason, combined)
        [] i = 3 -> hasNegativeIndicator(combined)
        [] i = 4 -> isBooked(combined, toLowerCase(in.summary))
        [] i = 5 -> isInterested(combined)
        [] i = 6 -> TRUE

RuleOutcome(i, in) ==
  CASE i = 1 -> "No Answer"
    [] i = 2 -> "Voicemail"
    [] i = 3 -> "Not Interested"
    [] i = 4 -> "Booked"
    [] i = 5 -> "Interested"
    [] i = 6 -> IF in.duration > 120 THEN "Interested"
                ELSE IF in.duration > 30 THEN "Needs Review"
                ELSE "Not Interested"

FirstRule(in) ==
  CHOOSE i \in 1..6 : RuleHolds(i, in) /\ \A j \in 1..(i - 1) : ~RuleHolds(j, in)

NoSignal(in) ==
  \A i \in 1..5 : ~RuleHolds(i, in)

DeclineAndBookingInTranscript(in) ==
  /\ some(negativeIndicators, toLowerCase(in.transcript))
  /\ some(bookingKeywords, toLowerCase(in.transcript))

\* C4: the outcome is the outcome of the first rule, in the order no-answer,
\* voicemail, negative, booking, interest, duration fallback, whose condition
\* holds; a later rule never overrides an earlier one.  The interest example of
\* the specification classifies as Interested.
C4_FirstMatchWins ==
  result # "none" =>
    /\ result = RuleOutcome(FirstRule(input), input)
    /\ \A i \in 1..6 :
         (RuleHolds(i, input) /\ result # RuleOutcome(i, input))
            => \E j \in 1..(i - 1) : RuleHolds(j, input)
    /\ (/\ input.endedReason = <<>>
        /\ input.transcript = SampleTranscripts[2]
        /\ input.summary = <<>>
        /\ input.duration = 45) => result = "Interested"

\* C4 witness: the negative rule and the booking rule both hold and the
\* earlier one decided.
C4_Witness ==
  /\ result = "Not Interested"
  /\ FirstRule(input) = 3
  /\ RuleHolds(4, input)

\* C5 as stated: a transcript with a decline phrase and a booking keyword is
\* Not Interested whatever the end reason, summary, duration and other text.
C5_Original ==
  (result # "none" /\ DeclineAndBookingInTranscript(input))
     => result = "Not Interested"

\* C5 amended: a transcript with a decline phrase and a booking keyword is
\* Not Interested whenever the end reason is neither a no-answer code nor
\* "voicemail" and the text does not contain "voicemail".
C5_DeclineBeatsBooking ==
  (/\ result # "none"
   /\ DeclineAndBookingInTranscript(input)
   /\ ~RuleHolds(1, input)
   /\ ~RuleHolds(2, input))
     => result = "Not Interested"

\* C5 witness: decline phrase and booking keyword in the transcript, the
\* booking rule would hold, and the outcome is Not Interested.
C5_Witness ==
  /\ result = "Not Interested"
  /\ DeclineAndBookingInTranscript(input)
  /\ RuleHolds(4, input)
  /\ ~RuleHolds(1, input)
  /\ ~RuleHolds(2, input)

\* C6: with no end-reason or textual rule matching, duration > 120 gives
\* Interested, 30 < duration <= 120 gives Needs Review, duration <= 30 gives
\* Not Interested (121 -> Interested, 90 and 31 -> Needs Review, 30 -> Not
\* Interested).
C6_DurationFallback ==
  (result # "none" /\ NoSignal(input)) =>
    /\ input.duration > 120 => result = "Interested"
    /\ (input.duration > 30 /\ input.duration <= 120) => result = "Needs Review"
    /\ input.duration <= 30 => result = "Not Interested"
    /\ input.duration = 121 => result = "Interested"
    /\ input.duration \in {31, 90} => result = "Needs Review"
    /\ input.duration = 30 => result = "Not Interested"

\* C6 witness: no signal, the boundary duration 30 classified Not Interested.
C6_Witness ==
  /\ NoSignal(input)
  /\ input.duration = 30
  /\ result = "Not Interested"

\* C24: whenever the end reason, lower-cased, is customer-did-not-answer,
\* no-answer, busy or failed, the outcome is No Answer, for every transcript,
\* summary and duration.
C24_NoAnswerCodesDecide ==
  (/\ result # "none"
   /\ toLowerCase(input.endedReason) \in
        {noAnswerReasons[k] : k \in 1..Len(noAnswerReasons)})
     => result = "No Answer"

\* C24 witness: the end reason "Busy" with a transcript that confirms a
\* booking and a long duration is No Answer.
C24_Witness ==
  /\ result = "No Answer"
  /\ input.endedReason = SampleEndedReasons[3]
  /\ input.transcript = SampleTranscripts[3]
  /\ input.duration = 121

\* Something other than a booking keyword is present: a phrase of another
\* list, the summary word "booked", or an end reason.
OtherPhraseMatches(in) ==
  LET combined == combinedText(in.transcript, in.summary)
  IN  \/ some(timeConfirmations, combined)
      \/ some(positiveConfirmations, combined)
      \/ some(interestIndicators, combined)
      \/ some(negativeIndicators, combined)
      \/ includes(combined, strVoicemail)
      \/ includes(toLowerCase(in.summary), strBooked)
      \/ toLowerCase(in.endedReason) # <<>>

OnlyBookingKeywordsMatch(in) ==
  /\ some(bookingKeywords, combinedText(in.transcript, in.summary))
  /\ ~OtherPhraseMatches(in)

\* C25: Booked is returned only with a booking keyword and a time
\* confirmation, a summary stating booked, confirmed or scheduled, or a
\* summary with "appointment" and a positive confirmation; and an input in
\* which nothing but booking keywords matches is never Booked.
C25_BookedNeedsSecondSignal ==
  result # "none" =>
    /\ result = "Booked" => RuleHolds(4, input)
    /\ OnlyBookingKeywordsMatch(input) => result # "Booked"

\* C26 as stated: with no end-reason or textual rule matching, the outcome
\* is Not Interested or Needs Review.
C26_Original ==
  (result # "none" /\ NoSignal(input))
     => result \in {"Not Interested", "Needs Review"}

\* C26 amended: with no end-reason or textual rule matching, the outcome is
\* Interested when the duration exceeds 120 and otherwise Not Interested or
\* Needs Review.
C26_NoSignalOutcomes ==
  (result # "none" /\ NoSignal(input)) =>
    /\ input.duration > 120 => result = "Interested"
    /\ input.duration <= 120 => result \in {"Not Interested", "Needs Review"}

\* C26 witness: no signal and a duration of 121, classified Interested.
C26_Witness ==
  /\ NoSignal(input)
  /\ input.duration = 121
  /\ result = "Interested"

EmptyText(in) == in.transcript = <<>> /\ in.summary = <<>>

\* C27 as stated: with empty transcript and summary the outcome is that of
\* the duration fallback, for every end reason and duration.
C27_Original ==
  (result # "none" /\ EmptyText(input)) => result = RuleOutcome(6, input)

\* C27 amended: with empty transcript and summary the outcome is that of the
\* duration fallback whenever the end reason is neither a no-answer code nor
\* "voicemail"; No Answer and Voicemail otherwise.
C27_EmptyTextFallsThrough ==
  (result # "none" /\ EmptyText(input)) =>
    IF RuleHolds(1, input) THEN result = "No Answer"
    ELSE IF toLowerCase(input.endedReason) = strVoicemail
    THEN result = "Voicemail"
    ELSE result = RuleOutcome(6, input)

\* C27 witness: empty text, the end reason customer-ended-call, duration 30,
\* classified Not Interested by the fallback.
C27_Witness ==
  /\ EmptyText(input)
  /\ input.endedReason = SampleEndedReasons[5]
  /\ input.duration = 30
  /\ result = "Not Interested"

(***************************************************************************)
(* Properties of updateAttioRecord                                         *)
(***************************************************************************)
Returned == result # NotCalled

UpdateCalled == Returned /\ input.configured /\ input.recordId # ""

\* C12 as stated: the attempts go on until one is accepted or the list is
\* exhausted, and the call succeeds exactly when some field set of the list
\* is accepted by the CRM.
C12_Original ==
  UpdateCalled =>
    LET accepted == {i \in 1..FieldSetCount : input.answers[i] = "ok"}
    IN  /\ result.updated <=> accepted # {}
        /\ result.attempts =
             IF accepted = {} THEN FieldSetCount
             ELSE CHOOSE i \in accepted : \A j \in accepted : i <= j

\* C12: updateAttioRecord makes its attempts in the order of the list, goes
\* to the next field set only after a missing-attribute answer, and stops at
\* the first accepted attempt, at the first other error or thrown request,
\* or at the end of the list; it returns true exactly when the last attempt
\* it made was accepted, and makes no attempt without key or record id.
C12_AttemptsUntilDecisiveAnswer ==
  Returned =>
    IF ~UpdateCalled
    THEN result.attempts = 0 /\ ~result.updated
    ELSE /\ result.attempts \in 1..FieldSetCount
         /\ \A i \in 1..(result.attempts - 1) :
              input.answers[i] = "missing_attribute"
         /\ result.attempts < FieldSetCount =>
              input.answers[result.attempts] # "missing_attribute"
         /\ result.updated <=> input.answers[result.attempts] = "ok"

\* The first field set met a missing attribute, the second was accepted and
\* the third was not tried.
C12_Witness ==
  /\ UpdateCalled
  /\ input.answers[1] = "missing_attribute"
  /\ input.answers[2] = "ok"
  /\ result.updated
  /\ result.attempts = 2

(***************************************************************************)
(* Properties of the sinks                                                 *)
(***************************************************************************)
\* C22: a sink called without its credentials returns to its caller with
\* failure (false, or null for createAttioRecord) and has sent no request,
\* whatever the service would have answered; with credentials it sends at
\* least one request unless updateAttioRecord was given no record id.
C22_FailClosed ==
  result.called =>
    /\ ~input.configured => result.failure /\ result.requests = 0
    /\ (input.configured
          /\ ~(input.sink = "updateAttioRecord" /\ input.recordId = ""))
         => result.requests >= 1

\* The Conversion sink called without an access token, the service ready to
\* accept the event: failure is reported and nothing was sent.
C22_Witness ==
  /\ result.called
  /\ input.sink = "sendConversionEvent"
  /\ ~input.configured
  /\ input.answers[1] = "ok"
  /\ result.failure
  /\ result.requests = 0

\* C28: the payload sendConversionEvent sends carries a lead_id if and only
\* if the lead id supplied is 15 to 17 decimal digits and nothing else, and
\* the lead_id sent is the number the supplied digits denote.
C28_LeadIdExact ==
  (result.called /\ result.requests = 1) =>
    /\ result.user_data.lead_id # <<>> <=>
         (/\ Len(input.leadId) \in 15..17
          /\ \A i \in 1..Len(input.leadId) :
               input.leadId[i] \in {"0","1","2","3","4","5","6","7","8","9"})
    /\ result.user_data.lead_id # <<>> =>
         result.user_data.lead_id = stripLeadingZeros(input.leadId)

(***************************************************************************)
(* Properties of POST /webhook/vapi                                        *)
(***************************************************************************)
Entries(r, op, type) ==
  {i \in DOMAIN trace[r] : trace[r][i].op = op /\ trace[r][i].type = type}

CallsOf(r, op) == Cardinality(Entries(r, op, "-"))

AppendsOf(r, type) == Cardinality(Entries(r, "logActivity", type))

ResultOf(r, op) ==
  trace[r][CHOOSE i \in DOMAIN trace[r] : trace[r][i].op = op].ok

\* The request carried a call-ended event and the handler has answered it.
Handled(r) ==
  wh[r].pc = "done" /\ wh[r].response \in {"success", "error"}

Sinks ==
  { [op |-> "sendTelegramNotification", type |-> "telegram_notification_sent"],
    [op |-> "updateAttioRecord", type |-> "attio_record_updated"],
    [op |-> "sendConversionEvent", type |-> "facebook_conversion_sent"] }

ActivityTypes ==
  {"vapi_webhook_received", "telegram_notification_sent",
   "attio_record_updated", "facebook_conversion_sent"}

AllEntries ==
  UNION {{<<r, i>> : i \in DOMAIN trace[r]} : r \in DOMAIN wh}

AcceptedInserts(op, type) ==
  Cardinality({e \in AllEntries :
                 /\ trace[e[1]][e[2]].op = op
                 /\ trace[e[1]][e[2]].type = type
                 /\ trace[e[1]][e[2]].ok})

RECURSIVE SumCopies(_, _)
SumCopies(bag, rows) ==
  IF rows = {} THEN 0
  ELSE LET row == CHOOSE x \in rows : TRUE
       IN  CopiesIn(row, bag) + SumCopies(bag, rows \ {row})

RowsOfType(type) ==
  SumCopies(activityLogs, {a \in BagToSet(activityLogs) : a.type = type})

CallLogRows == SumCopies(callLogs, BagToSet(callLogs))

\* C1: for every handled call-ended event and every combination of sink
\* results, each sink is invoked at most once, exactly one ActivityRecord is
\* written for each sink that was invoked and none for a sink that was not,
\* and exactly one CallRecord is written; every insert the database accepted
\* is one row of its table, so with no rejected insert the tables hold
\* exactly those records.
C1_OneRecordPerSinkAttempt ==
  /\ \A r \in DOMAIN wh :
       Handled(r) =>
         /\ \A s \in Sinks :
              /\ CallsOf(r, s.op) <= 1
              /\ AppendsOf(r, s.type) = CallsOf(r, s.op)
         /\ CallsOf(r, "sendTelegramNotification") = 1
         /\ CallsOf(r, "sendConversionEvent") = 1
         /\ CallsOf(r, "updateAttioRecord") =
              (IF payloadOf(r).attio_record_id # "" THEN 1 ELSE 0)
         /\ CallsOf(r, "createCallLog") = 1
  /\ \A type \in ActivityTypes :
       RowsOfType(type) = AcceptedInserts("logActivity", type)
  /\ CallLogRows = AcceptedInserts("createCallLog", "-")
  /\ (storeFaults = 0 /\ \A r \in DOMAIN wh : wh[r].pc = "done") =>
       /\ \A s \in Sinks :
            RowsOfType(s.type) =
              Cardinality({r \in DOMAIN wh : Handled(r) /\ CallsOf(r, s.op) = 1})
       /\ CallLogRows = Cardinality({r \in DOMAIN wh : Handled(r)})

\* C1 witness: an event whose three sinks were all invoked and all failed,
\* with its three sink activities and its call log in the tables.
C1_Witness ==
  \E r \in DOMAIN wh :
    /\ Handled(r)
    /\ storeFaults = 0
    /\ \A s \in Sinks : CallsOf(r, s.op) = 1 /\ ~ResultOf(r, s.op)
    /\ \A s \in Sinks : RowsOfType(s.type) >= 1
    /\ CallLogRows >= 1

\* C2: when the Notification Sink fails, the Conversion Sink and (with a
\* record id) the CRM Sink are still invoked afterwards, and the activity of
\* each is written with the status of that sink's own result.
C2_NotificationFailureIsolated ==
  \A r \in DOMAIN wh :
    (Handled(r) /\ ~wh[r].telegramSent) =>
      /\ CallsOf(r, "sendConversionEvent") = 1
      /\ payloadOf(r).attio_record_id # "" => CallsOf(r, "updateAttioRecord") = 1
      /\ \A s \in Sinks \ {[op |-> "sendTelegramNotification",
                            type |-> "telegram_notification_sent"]} :
           CallsOf(r, s.op) = 1 =>
             \E i \in Entries(r, s.op, "-"), j \in Entries(r, "logActivity", s.type) :
               /\ i < j
               /\ \A k \in Entries(r, "sendTelegramNotification", "-") : k < i
               /\ trace[r][j].status = statusOf(trace[r][i].ok)

\* C2 witness: the notification failed while the CRM update and the
\* conversion event succeeded and were recorded as successes.
C2_Witness ==
  \E r \in DOMAIN wh :
    /\ Handled(r)
    /\ ~wh[r].telegramSent
    /\ wh[r].attioUpdated
    /\ wh[r].facebookSent
    /\ \E a \in BagToSet(activityLogs) :
         a.type = "attio_record_updated" /\ a.status = "success"
    /\ \E a \in BagToSet(activityLogs) :
         a.type = "facebook_conversion_sent" /\ a.status = "success"
    /\ \E a \in BagToSet(activityLogs) :
         a.type = "telegram_notification_sent" /\ a.status = "failed"

\* C3: the response to a call-ended event has status "error" exactly when
\* the insert of the CallRecord threw; no failure of a sink and no rejected
\* activity insert makes it an error.
C3_ErrorOnlyFromPersistence ==
  \A r \in DOMAIN wh :
    wh[r].pc = "done" /\ wh[r].response # "ignored" =>
      /\ wh[r].response \in {"success", "error"}
      /\ wh[r].response = "error" <=>
           (CallsOf(r, "createCallLog") = 1 /\ ~ResultOf(r, "createCallLog"))
      /\ wh[r].response = "success" <=>
           (CallsOf(r, "createCallLog") = 1 /\ ResultOf(r, "createCallLog"))

\* C3 witness: every sink failed and an activity insert was rejected, and the
\* response is a success.
C3_Witness ==
  \E r \in DOMAIN wh :
    /\ wh[r].response = "success"
    /\ \A s \in Sinks : CallsOf(r, s.op) = 1 /\ ~ResultOf(r, s.op)
    /\ \E i \in DOMAIN trace[r] :
         trace[r][i].op = "logActivity" /\ ~trace[r][i].ok

\* C10: a call-ended event without a CRM record id has findAttioRecordByPhone
\* called for it before the CRM Sink decision, and one with a record id has no
\* lookup.
C10_LookupWhenNoRecordId ==
  \A r \in DOMAIN wh :
    Handled(r) =>
      IF payloadOf(r).attio_record_id = ""
      THEN CallsOf(r, "findAttioRecordByPhone") = 1
      ELSE CallsOf(r, "findAttioRecordByPhone") = 0


\* C11: a handled call-ended event for which no CRM record id resolves has
\* no updateAttioRecord call and exactly one "attio_record_updated" activity,
\* with status "failed", so that each of the three sinks has one recorded
\* result.
C11_SkipRecordedAsFailed ==
  \A r \in DOMAIN wh :
    (Handled(r) /\ payloadOf(r).attio_record_id = "") =>
      /\ CallsOf(r, "updateAttioRecord") = 0
      /\ AppendsOf(r, "attio_record_updated") = 1
      /\ \A i \in Entries(r, "logActivity", "attio_record_updated") :
           trace[r][i].status = "failed"
      /\ \A s \in Sinks : AppendsOf(r, s.type) = 1

\* C13: at no point has sendConversionEvent been called twice for a request,
\* and once a call-ended event is handled it has been called exactly once,
\* whatever the notification returned, whether or not the payload carried a
\* record id and whatever the CRM update returned.
C13_ConversionExactlyOnce ==
  \A r \in DOMAIN wh :
    /\ CallsOf(r, "sendConversionEvent") <= 1
    /\ wh[r].pc \in {"logFacebook", "callLog"} =>
         CallsOf(r, "sendConversionEvent") = 1
    /\ Handled(r) => CallsOf(r, "sendConversionEvent") = 1
    /\ wh[r].response = "ignored" => CallsOf(r, "sendConversionEvent") = 0

\* An event whose notification failed and whose CRM update was skipped or
\* failed, with its one conversion call.
C13_Witness ==
  \E r \in DOMAIN wh :
    /\ Handled(r)
    /\ ~wh[r].telegramSent
    /\ CallsOf(r, "sendConversionEvent") = 1
    /\ \/ payloadOf(r).attio_record_id = ""
       \/ CallsOf(r, "updateAttioRecord") = 1 /\ ~wh[r].attioUpdated

\* C14: createCallLog is called after sendTelegramNotification and
\* sendConversionEvent have returned (and updateAttioRecord, when it is
\* called) and after their activities were logged; the record it is given
\* has the outcome determineCallOutcome returned for the payload, the value
\* sendTelegramNotification returned as telegramSent and the value
\* updateAttioRecord returned as attioUpdated, FALSE when it was not called;
\* an accepted insert is that row of call_logs.
C14_CallRecordAfterSinks ==
  \A r \in DOMAIN wh :
    \A j \in Entries(r, "createCallLog", "-") :
      LET expected ==
            [callId |-> callIdOf(payloadOf(r)),
             customerPhone |-> customerPhoneOf(payloadOf(r)),
             duration |-> durationOf(payloadOf(r)),
             outcome |-> outcomeOf(payloadOf(r)),
             summary |-> payloadOf(r).summary,
             endedReason |-> endedReasonOf(payloadOf(r)),
             telegramSent |-> ResultOf(r, "sendTelegramNotification"),
             attioUpdated |->
               IF CallsOf(r, "updateAttioRecord") = 1
               THEN ResultOf(r, "updateAttioRecord") ELSE FALSE]
      IN  /\ j = Len(trace[r])
          /\ \A s \in Sinks :
               CallsOf(r, s.op) = 1 =>
                 \E i \in Entries(r, s.op, "-"),
                    k \in Entries(r, "logActivity", s.type) : i < k /\ k < j
          /\ CallsOf(r, "sendTelegramNotification") = 1
          /\ CallsOf(r, "sendConversionEvent") = 1
          /\ callLogOf(r) = expected
          /\ trace[r][j].ok => CopiesIn(expected, callLogs) >= 1

\* A stored CallRecord of an event whose notification was sent and whose CRM
\* update was skipped.
C14_Witness ==
  \E r \in DOMAIN wh :
    /\ wh[r].response = "success"
    /\ wh[r].telegramSent
    /\ payloadOf(r).attio_record_id = ""
    /\ \E row \in BagToSet(callLogs) :
         /\ row.telegramSent
         /\ ~row.attioUpdated
         /\ row.outcome = outcomeOf(payloadOf(r))

\* C18: every request the handler has answered was answered with HTTP status
\* 200 and a status among success, ignored and error: ignored for an invalid
\* payload and for an event type other than end-of-call-report, error when
\* processing threw; and no request is answered before the handler is done.
C18_AlwaysAcknowledged ==
  \A r \in DOMAIN wh :
    IF wh[r].pc = "done"
    THEN /\ wh[r].httpStatus = 200
         /\ wh[r].response \in WebhookStatuses
         /\ (~payloadOf(r).valid \/ payloadOf(r).type # "end-of-call-report")
              <=> wh[r].response = "ignored"
    ELSE wh[r].httpStatus = 0 /\ wh[r].response = "none"

\* The call log insert threw and the request was answered 200 with status
\* error.
C18_Witness ==
  \E r \in DOMAIN wh :
    /\ wh[r].pc = "done"
    /\ CallsOf(r, "createCallLog") = 1
    /\ ~ResultOf(r, "createCallLog")
    /\ wh[r].response = "error"
    /\ wh[r].httpStatus = 200

\* C19: with every awaited call returning, a request that passed validation
\* and dispatch is eventually answered, and by then sendTelegramNotification
\* and sendConversionEvent have each been called once, and updateAttioRecord
\* once when the payload carries a record id.
C19_EventuallyResponds ==
  \A r \in Requests :
    (wh[r].pc = "logReceived") ~>
      (/\ wh[r].pc = "done"
       /\ wh[r].response \in {"success", "error"}
       /\ CallsOf(r, "sendTelegramNotification") = 1
       /\ CallsOf(r, "sendConversionEvent") = 1
       /\ payloadOf(r).attio_record_id # "" =>
            CallsOf(r, "updateAttioRecord") = 1)

\* An answered request with a record id whose conversion event failed, all
\* three sinks having been called.
C19_Witness ==
  \E r \in DOMAIN wh :
    /\ wh[r].pc = "done"
    /\ wh[r].response = "success"
    /\ payloadOf(r).attio_record_id # ""
    /\ CallsOf(r, "sendTelegramNotification") = 1
    /\ CallsOf(r, "updateAttioRecord") = 1
    /\ CallsOf(r, "sendConversionEvent") = 1
    /\ ~wh[r].facebookSent

\* The payload a request carried and the values its handler computed from
\* it, read from the request alone.
OwnPayload(r) == WebhookPayloads[wh[r].p]

OwnOutcome(r) == payloadOutcomes[wh[r].p]

OwnResult(r, op) == IF CallsOf(r, op) = 1 THEN ResultOf(r, op) ELSE FALSE

\* The ActivityRecord of the given type that belongs to request r.
OwnActivity(r, type) ==
  IF type = "vapi_webhook_received"
  THEN [type |-> type, status |-> "success", service |-> "Vapi",
        direction |-> "incoming",
        details |-> [callId |-> callIdOf(OwnPayload(r)),
                     duration |-> durationOf(OwnPayload(r)),
                     endedReason |-> endedReasonOf(OwnPayload(r))]]
  ELSE IF type = "telegram_notification_sent"
  THEN [type |-> type,
        status |-> statusOf(OwnResult(r, "sendTelegramNotification")),
        service |-> "Telegram", direction |-> "outgoing",
        details |-> [callId |-> callIdOf(OwnPayload(r)),
                     outcome |-> OwnOutcome(r),
                     phone |-> customerPhoneOf(OwnPayload(r))]]
  ELSE IF type = "attio_record_updated"
  THEN [type |-> type,
        status |-> statusOf(OwnResult(r, "updateAttioRecord")),
        service |-> "Attio", direction |-> "outgoing",
        details |-> [recordId |-> OwnPayload(r).attio_record_id,
                     outcome |-> OwnOutcome(r),
                     phone |-> customerPhoneOf(OwnPayload(r))]]
  ELSE [type |-> type,
        status |-> statusOf(OwnResult(r, "sendConversionEvent")),
        service |-> "Facebook", direction |-> "outgoing",
        details |-> [callId |-> callIdOf(OwnPayload(r)),
                     outcome |-> OwnOutcome(r),
                     phone |-> customerPhoneOf(OwnPayload(r))]]

\* The CallRecord that belongs to request r.
OwnCallLog(r) ==
  [callId |-> callIdOf(OwnPayload(r)),
   customerPhone |-> customerPhoneOf(OwnPayload(r)),
   duration |-> durationOf(OwnPayload(r)),
   outcome |-> OwnOutcome(r),
   summary |-> OwnPayload(r).summary,
   endedReason |-> endedReasonOf(OwnPayload(r)),
   telegramSent |-> OwnResult(r, "sendTelegramNotification"),
   attioUpdated |-> OwnResult(r, "updateAttioRecord")]

\* The accepted inserts of activities, and of call logs, over all requests.
StoredActivities ==
  {e \in AllEntries : /\ trace[e[1]][e[2]].op = "logActivity"
                      /\ trace[e[1]][e[2]].ok}

StoredCallLogs ==
  {r \in DOMAIN wh : CallsOf(r, "createCallLog") = 1
                       /\ ResultOf(r, "createCallLog")}

\* C21: with two requests interleaving at every await, each handled event has
\* exactly one createCallLog call, and the tables hold, row for row, the
\* records built from each event's own payload, own outcome and own sink
\* results: a row has as many copies as there are accepted inserts of the
\* events it belongs to, so no row carries a value of the other event.
C21_NoCrossTalk ==
  /\ \A r \in DOMAIN wh : Handled(r) => CallsOf(r, "createCallLog") = 1
  /\ \A e \in StoredActivities :
       OwnActivity(e[1], trace[e[1]][e[2]].type) \in BagToSet(activityLogs)
  /\ \A row \in BagToSet(activityLogs) :
       CopiesIn(row, activityLogs) =
         Cardinality({e \in StoredActivities :
                        OwnActivity(e[1], trace[e[1]][e[2]].type) = row})
  /\ \A r \in StoredCallLogs : OwnCallLog(r) \in BagToSet(callLogs)
  /\ \A row \in BagToSet(callLogs) :
       CopiesIn(row, callLogs) =
         Cardinality({r \in StoredCallLogs : OwnCallLog(r) = row})

\* Two events with different call ids and different outcomes are in flight
\* together: neither is answered yet, the first has run and logged all its
\* sinks, the second its notification, and the rows of both are stored.
C21_Witness ==
  /\ DOMAIN wh = TwoRequests
  /\ wh[1].pc = "callLog"
  /\ wh[2].pc \in {"attio", "facebook"}
  /\ callIdOf(OwnPayload(1)) # callIdOf(OwnPayload(2))
  /\ OwnOutcome(1) # OwnOutcome(2)
  /\ \E e \in StoredActivities :
       e[1] = 1 /\ trace[e[1]][e[2]].type = "facebook_conversion_sent"
  /\ \E e \in StoredActivities :
       e[1] = 2 /\ trace[e[1]][e[2]].type = "telegram_notification_sent"

\* The step the handler takes after the append of an activity of the given
\* type has returned.
StepAfter(r, type) ==
  IF type = "vapi_webhook_received" THEN "sendTelegramNotification"
  ELSE IF type = "telegram_notification_sent"
  THEN IF OwnPayload(r).attio_record_id # "" THEN "updateAttioRecord"
       ELSE "sendConversionEvent"
  ELSE IF type = "attio_record_updated" THEN "sendConversionEvent"
  ELSE "createCallLog"

FailedAppends(r) ==
  {k \in DOMAIN trace[r] : trace[r][k].op = "logActivity" /\ ~trace[r][k].ok}

\* C23: after an append of an ActivityRecord that the database rejected, the
\* handler goes on exactly as after an accepted one: the request is not
\* answered by that step, the next call is the next sink (or the call log),
\* the CallRecord given to createCallLog is the one of the event's payload
\* and sink results, and the response is success unless createCallLog itself
\* was rejected.
C23_AppendFailureNotPropagated ==
  \A r \in DOMAIN wh :
    \A k \in FailedAppends(r) :
      /\ k = Len(trace[r]) => wh[r].pc # "done"
      /\ k < Len(trace[r]) => trace[r][k + 1].op = StepAfter(r, trace[r][k].type)
      /\ wh[r].pc = "done" =>
           /\ trace[r][Len(trace[r])].op = "createCallLog"
           /\ callLogOf(r) = OwnCallLog(r)
           /\ wh[r].response =
                (IF trace[r][Len(trace[r])].ok THEN "success" ELSE "error")
           /\ trace[r][Len(trace[r])].ok => CopiesIn(OwnCallLog(r), callLogs) >= 1

\* An event whose notification activity was rejected by the database, with
\* its later sinks called, its CallRecord stored and the answer success.
C23_Witness ==
  \E r \in DOMAIN wh :
    /\ \E k \in FailedAppends(r) : trace[r][k].type = "telegram_notification_sent"
    /\ CallsOf(r, "sendConversionEvent") = 1
    /\ wh[r].response = "success"
    /\ CopiesIn(OwnCallLog(r), callLogs) = 1

(***************************************************************************)
(* Properties of the audit log store                                       *)
(***************************************************************************)
RowsWithCallId(id) ==
  SumCopies(callLogs, {row \in BagToSet(callLogs) : row.callId = id})

\* C29: no step removes or changes a row of call_logs or of activity_logs,
\* and every insert the database accepts adds one row, also when call_logs
\* already holds a row with the same call id.
C29_StoreOnlyGrows ==
  [][LET newImport == {n \in DOMAIN itrace' : n > Len(itrace) /\ itrace'[n].ok}
         newWebhook == {r \in DOMAIN trace :
                          /\ Len(trace'[r]) > Len(trace[r])
                          /\ trace'[r][Len(trace'[r])].ok}
         newCallLogs ==
           Cardinality({n \in newImport : itrace'[n].op = "createCallLog"})
           + Cardinality({r \in newWebhook :
                            trace'[r][Len(trace'[r])].op = "createCallLog"})
         newActivities ==
           Cardinality({n \in newImport : itrace'[n].op = "logActivity"})
           + Cardinality({r \in newWebhook :
                            trace'[r][Len(trace'[r])].op = "logActivity"})
     IN  /\ \A row \in BagToSet(callLogs) :
              CopiesIn(row, callLogs') >= CopiesIn(row, callLogs)
         /\ \A row \in BagToSet(activityLogs) :
              CopiesIn(row, activityLogs') >= CopiesIn(row, activityLogs)
         /\ BagCardinality(callLogs') = BagCardinality(callLogs) + newCallLogs
         /\ BagCardinality(activityLogs') =
              BagCardinality(activityLogs) + newActivities]_vars

\* The same call was imported twice: call_logs holds two rows with its id.
C29_Witness ==
  /\ Len(finished) >= 1
  /\ \E row \in BagToSet(callLogs) : RowsWithCallId(row.callId) >= 2

(***************************************************************************)
(* Properties of the imports                                               *)
(***************************************************************************)
\* The imports that ran through their loop, the running one included.
Runs ==
  {r \in 1..Len(finished) : finished[r].httpStatus = 200}
    \cup (IF imp.pc = "loop" THEN {Len(finished) + 1} ELSE {})

ResultsOf(r) == IF r <= Len(finished) THEN finished[r].results ELSE imp.results

Completed(r) == r <= Len(finished) /\ finished[r].httpStatus = 200

ItemFailed(r, k) ==
  \E n \in DOMAIN itrace :
    /\ itrace[n].run = r /\ itrace[n].item = k /\ ~itrace[n].ok
    /\ itrace[n].op \in {"createCallLog", "createAttioRecord"}

ItemHandled(r, k) ==
  \E n \in DOMAIN itrace : itrace[n].run = r /\ itrace[n].item = k

EndedCalls == SelectSeq(vapiCalls, LAMBDA call : call.status = "ended")

FailedItems(r) == {k \in 1..ResultsOf(r).total : ItemFailed(r, k)}

\* C9: in a completed import of calls or of leads, every item of the batch
\* was handled although some failed, errors has one entry per failed item,
\* and processed (calls) or created and skipped (leads) count exactly the
\* items that did not fail.
C9_BatchResilience ==
  \A r \in 1..Len(finished) :
    Completed(r) =>
      LET results == finished[r].results
          failed == Cardinality(FailedItems(r))
      IN  /\ \A k \in 1..results.total : ItemHandled(r, k)
          /\ Len(results.errors) = failed
          /\ finished[r].kind = "calls" =>
               /\ results.processed = results.total - failed
               /\ Len(results.calls) = results.processed
               /\ \A k \in 1..Len(results.calls) :
                    \E j \in 1..results.total :
                      /\ ~ItemFailed(r, j)
                      /\ EndedCalls[j].id = results.calls[k].callId
          /\ finished[r].kind = "leads" =>
               /\ results.created + results.skipped = results.total - failed
               /\ \A k \in 1..results.total :
                    results.leads[k].status = "error" <=> ItemFailed(r, k)

\* A completed import of two calls whose first item threw at the call log
\* insert and whose second item was processed.
C9_Witness ==
  \E r \in 1..Len(finished) :
    /\ Completed(r)
    /\ finished[r].kind = "calls"
    /\ finished[r].results.total = 2
    /\ ItemFailed(r, 1)
    /\ ~ItemFailed(r, 2)
    /\ finished[r].results.processed = 1
    /\ Len(finished[r].results.errors) = 1

\* The rows of the lead imports: row k of an import is the result for lead k
\* of the page.
LeadRows ==
  UNION {{[run |-> r, item |-> k, status |-> ResultsOf(r).leads[k].status] :
            k \in 1..Len(ResultsOf(r).leads)} :
           r \in {q \in Runs : endpoint = "leads"}}

Before(a, b) == a.run < b.run \/ (a.run = b.run /\ a.item < b.item)

HasPhone(row) == fbLeads[row.item].phone # <<>>

PhoneOf(row) == normalizedPhone(fbLeads[row.item].phone)

SamePhone(a, b) == HasPhone(a) /\ HasPhone(b) /\ PhoneOf(a) = PhoneOf(b)

PhoneLookupAnswered(row) ==
  \E n \in DOMAIN itrace :
    /\ itrace[n].run = row.run /\ itrace[n].item = row.item
    /\ itrace[n].op = "findAttioRecordByPhone" /\ itrace[n].answered

PhoneLookupUnanswered(phone) ==
  \E n \in DOMAIN itrace :
    /\ itrace[n].op = "findAttioRecordByPhone" /\ ~itrace[n].answered
    /\ normalizedPhone(fbLeads[itrace[n].item].phone) = phone

CreateAccepted(row) ==
  \E n \in DOMAIN itrace :
    /\ itrace[n].run = row.run /\ itrace[n].item = row.item
    /\ itrace[n].op = "createAttioRecord" /\ itrace[n].ok

DuplicatePhones ==
  {attio[i].phone : i \in {j \in DOMAIN attio :
     /\ attio[j].phone # <<>>
     /\ \E h \in DOMAIN attio : h # j /\ attio[h].phone = attio[j].phone}}

\* C8 as stated: of the leads with one phone number the first one imported is
\* marked created and every later one skipped, and the CRM never holds two
\* records with one phone number.
C8_Original ==
  /\ \A b \in LeadRows :
       HasPhone(b) =>
         IF \E a \in LeadRows : SamePhone(a, b) /\ Before(a, b)
         THEN b.status = "skipped"
         ELSE b.status = "created"
  /\ DuplicatePhones = {}

\* C8: with imports run one after the other, a lead is marked created exactly
\* when the CRM accepted the create; once a lead with a phone number is
\* created, every later lead with that number whose phone lookup the CRM
\* answers is skipped; and the CRM holds two records with one phone number
\* only if a phone lookup for that number was not answered.
C8_DedupWhenLookupAnswered ==
  /\ \A b \in LeadRows : b.status = "created" <=> CreateAccepted(b)
  /\ \A a \in LeadRows, b \in LeadRows :
       /\ a.status = "created"
       /\ SamePhone(a, b)
       /\ Before(a, b)
       /\ PhoneLookupAnswered(b)
       => b.status = "skipped"
  /\ \A phone \in DuplicatePhones : PhoneLookupUnanswered(phone)

\* The same lead was created by the first import and skipped by the second,
\* which the CRM answered.
C8_Witness ==
  \E a \in LeadRows, b \in LeadRows :
    /\ a.run = 1 /\ b.run = 2 /\ a.item = b.item
    /\ Completed(1) /\ Completed(2)
    /\ HasPhone(a)
    /\ a.status = "created"
    /\ PhoneLookupAnswered(b)
    /\ b.status = "skipped"


\* The positions in itrace of the calls of op made for item k of import r.
ItemCalls(r, k, op) ==
  {n \in DOMAIN itrace :
     itrace[n].run = r /\ itrace[n].item = k /\ itrace[n].op = op}

CallImportItems ==
  UNION {{<<r, k>> : k \in 1..finished[r].results.total} :
           r \in {q \in 1..Len(finished) :
                    Completed(q) /\ finished[q].kind = "calls"}}

\* C15: every call of a completed historical import went through the steps
\* of the live handler except the notification: the conversion event was sent
\* once, each sink call was followed by one logged activity, and one call log
\* with telegramSent FALSE was inserted.
C15_ImportMatchesLive ==
  \A item \in CallImportItems :
    LET r == item[1]
        k == item[2]
    IN  /\ ItemCalls(r, k, "sendTelegramNotification") = {}
        /\ Cardinality(ItemCalls(r, k, "createCallLog")) = 1
        /\ Cardinality(ItemCalls(r, k, "sendConversionEvent")) = 1
        /\ Cardinality(ItemCalls(r, k, "logActivity"))
             = Cardinality(ItemCalls(r, k, "updateAttioRecord"))
                 + Cardinality(ItemCalls(r, k, "sendConversionEvent"))

LeadItems ==
  UNION {{<<r, k>> : k \in 1..Len(ResultsOf(r).leads)} :
           r \in {q \in Runs : endpoint = "leads"}}

Found(calls) == \E n \in calls : itrace[n].ok

\* C16: for every lead of a lead import the phone lookup, when made, comes
\* before the email lookup and both before the create call; the email lookup
\* is made only if the phone lookup found no record; createAttioRecord is
\* called only if no lookup found a record; and a lead for which a lookup
\* found a record has status skipped, is counted in skipped and has no create
\* call.
C16_PhoneThenEmailThenCreate ==
  /\ \A item \in LeadItems :
       LET r == item[1]
           k == item[2]
           lead == fbLeads[k]
           byPhone == ItemCalls(r, k, "findAttioRecordByPhone")
           byEmail == ItemCalls(r, k, "findAttioRecordByEmail")
           creates == ItemCalls(r, k, "createAttioRecord")
       IN  /\ Cardinality(byPhone) = (IF lead.phone # <<>> THEN 1 ELSE 0)
           /\ Cardinality(byEmail) <= 1
           /\ Cardinality(creates) <= 1
           /\ \A p \in byPhone, e \in byEmail : p < e
           /\ \A l \in byPhone \cup byEmail, c \in creates : l < c
           /\ byEmail # {} <=> (~Found(byPhone) /\ lead.email # <<>>)
           /\ creates # {} <=> ~Found(byPhone \cup byEmail)
           /\ Found(byPhone \cup byEmail) <=>
                ResultsOf(r).leads[k].status = "skipped"
  /\ \A r \in {q \in Runs : endpoint = "leads"} :
       ResultsOf(r).skipped =
         Cardinality({k \in 1..Len(ResultsOf(r).leads) :
                        ResultsOf(r).leads[k].status = "skipped"})

\* A lead the phone lookup did not find, the email lookup found, and which
\* was skipped without a create call.
C16_Witness ==
  \E item \in LeadItems :
    LET r == item[1]
        k == item[2]
    IN  /\ ItemCalls(r, k, "findAttioRecordByPhone") # {}
        /\ ~Found(ItemCalls(r, k, "findAttioRecordByPhone"))
        /\ Found(ItemCalls(r, k, "findAttioRecordByEmail"))
        /\ ItemCalls(r, k, "createAttioRecord") = {}
        /\ ResultsOf(r).leads[k].status = "skipped"


Lookups == {"findAttioRecordByPhone", "findAttioRecordByEmail"}

\* The phone number and the e-mail address a lookup of item k was given.
ItemPhone(k) ==
  IF endpoint = "leads" THEN fbLeads[k].phone ELSE EndedCalls[k].number

ItemEmail(k) == IF endpoint = "leads" THEN fbLeads[k].email ELSE <<>>

Matches(n, rec) ==
  IF itrace[n].op = "findAttioRecordByPhone"
  THEN rec.phone = normalizedPhone(ItemPhone(itrace[n].item))
  ELSE /\ rec.email # <<>>
       /\ toLowerCase(rec.email) = toLowerCase(ItemEmail(itrace[n].item))

\* C17: a lookup that the CRM did not answer (no key, response not OK,
\* thrown request) returned null, a lookup returned a record id only for a
\* record of the CRM that matches, and after every lookup the handler went
\* on with the item: a later call for the same item follows in the trace.
C17_LookupNeverThrows ==
  \A n \in DOMAIN itrace :
    itrace[n].op \in Lookups =>
      /\ ~itrace[n].answered => ~itrace[n].ok
      /\ itrace[n].ok => \E i \in DOMAIN attio : Matches(n, attio[i])
      /\ ~itrace[n].ok =>
           \E m \in DOMAIN itrace :
             /\ m > n
             /\ itrace[m].run = itrace[n].run
             /\ itrace[m].item = itrace[n].item
             /\ itrace[m].op \in
                  {"findAttioRecordByEmail", "createAttioRecord",
                   "updateAttioRecord", "createCallLog"}

\* With the key configured, a phone lookup went unanswered although the CRM
\* holds a matching record, returned null, and the record was created again.
C17_Witness ==
  \E n \in DOMAIN itrace :
    /\ env.attio
    /\ itrace[n].op = "findAttioRecordByPhone"
    /\ ~itrace[n].answered
    /\ ~itrace[n].ok
    /\ \E m \in ItemCalls(itrace[n].run, itrace[n].item, "createAttioRecord") :
         m > n /\ itrace[m].ok
    /\ DuplicatePhones # {}


\* C30: every attempt to create a CRM record for a lead is followed by an
\* attio_record_created ActivityRecord for that lead whose status is success
\* when a record was created and failed when none was.
C30_EveryCreationLogged ==
  \A n \in DOMAIN itrace :
    itrace[n].op = "createAttioRecord" =>
      \E m \in DOMAIN itrace :
        /\ m > n
        /\ itrace[m].run = itrace[n].run
        /\ itrace[m].item = itrace[n].item
        /\ itrace[m].op = "logActivity"
        /\ itrace[m].type = "attio_record_created"
        /\ itrace[m].status = statusOf(itrace[n].ok)

(***************************************************************************)
(* Properties of the call duration                                         *)
(***************************************************************************)
DurationAbsent ==
  IF input.source = "webhook" THEN input.duration = 0
  ELSE input.startedAt = 0 \/ input.endedAt = 0

\* C31: the duration handed to the classifier and stored with the call is a
\* non-negative integer for every webhook event and every imported call, and
\* it is 0 when the source gives no duration or no start or end time.
C31_DurationNonNegative ==
  result.called =>
    /\ result.duration \in Nat
    /\ DurationAbsent => result.duration = 0

(***************************************************************************)
(* Properties of the phone normalisation                                   *)
(***************************************************************************)
OneLeadingPlus(phone) ==
  /\ startsWithPlus(phone)
  /\ Len(phone) > 1 => phone[2] # "+"

\* C32: the lookup and the creation apply the same normalisation, which is
\* idempotent and yields exactly one leading "+": a record created for phone
\* p is stored under the form that a later lookup of p, written with or
\* without the leading "+", queries for.
C32_SameCanonicalForm ==
  result.stage = "looked up" /\ Len(result.crm) > 0 =>
    /\ normalizedPhone(result.crm[1].phone) = result.crm[1].phone
    /\ normalizedPhone(result.queried) = result.queried
    /\ OneLeadingPlus(result.crm[1].phone)
    /\ OneLeadingPlus(result.queried)
    /\ result.crm[1].phone = result.queried
    /\ result.found = result.crm[1].record_id

(***************************************************************************)
(* Properties of the ignored webhooks                                      *)
(***************************************************************************)
IgnoredPayload(p) ==
  ~WebhookPayloads[p].valid \/ WebhookPayloads[p].type # "end-of-call-report"

\* C33: the step that receives a webhook whose payload is invalid or whose
\* event type is not the end-of-call report answers "ignored" with status 200
\* and changes nothing else: no outcome is determined, no sink is invoked, no
\* ActivityRecord and no CallRecord is written, for this request or later.
C33_IgnoredLeavesAllElse ==
  [][\A r \in DOMAIN wh :
       /\ (wh[r].pc = "idle" /\ wh'[r].pc # "idle" /\ IgnoredPayload(wh'[r].p)) =>
            /\ wh'[r] = [wh[r] EXCEPT !.pc = "done", !.p = wh'[r].p,
                                      !.response = "ignored", !.httpStatus = 200]
            /\ \A q \in DOMAIN wh \ {r} : wh'[q] = wh[q]
            /\ UNCHANGED <<trace, activityLogs, callLogs, storeFaults>>
            /\ UNCHANGED <<classifierVars, importVars, env>>
       /\ (wh[r].pc # "idle" /\ IgnoredPayload(wh[r].p)) =>
            /\ wh'[r] = wh[r]
            /\ trace'[r] = <<>>
     ]_vars

\* A valid status-update event was answered "ignored"; nothing was called
\* and nothing was stored.
C33_Witness ==
  \E r \in DOMAIN wh :
    /\ wh[r].pc = "done"
    /\ wh[r].response = "ignored"
    /\ WebhookPayloads[wh[r].p].valid
    /\ WebhookPayloads[wh[r].p].type = "status-update"
    /\ wh[r].outcome = "none"
    /\ trace[r] = <<>>
    /\ BagToSet(activityLogs) = {}
    /\ BagToSet(callLogs) = {}

(***************************************************************************)
(* Properties of the field sets of updateAttioRecord                       *)
(***************************************************************************)
\* C34: the first attempt of updateAttioRecord sends the full field set and
\* each later attempt sends strictly fewer optional fields than the attempt
\* before it, every attempt contains the call outcome field, and no two
\* attempts of one update send the same field set.
C34_StrictlyFewerFields ==
  UpdateCalled =>
    /\ result.sent[1] = cleanValues(allValues(input.options))
    /\ \A i \in DOMAIN result.sent : "call_outcome" \in result.sent[i]
    /\ \A i \in 2..Len(result.sent) :
         /\ result.sent[i] \subseteq result.sent[i - 1]
         /\ result.sent[i] # result.sent[i - 1]
    /\ \A i, j \in DOMAIN result.sent : i # j => result.sent[i] # result.sent[j]

\* C35: updateAttioRecord makes a later attempt only after the attempt before
\* it was rejected with a missing-attribute error; any other rejection and a
\* thrown request end the sequence at once with failure, no remaining field
\* set is tried; one call sends at most three update requests.
C35_OnlyMissingAttributeRetries ==
  Returned =>
    /\ Len(result.sent) = result.attempts
    /\ result.attempts <= 3
    /\ \A i \in 2..result.attempts : input.answers[i - 1] = "missing_attribute"
    /\ \A i \in 1..FieldSetCount :
         (/\ UpdateCalled
          /\ input.answers[i] \in {"other_error", "throws"}
          /\ \A j \in 1..(i - 1) : input.answers[j] = "missing_attribute") =>
           /\ ~result.updated
           /\ result.attempts = i

\* The first request met a missing attribute, the second was rejected for
\* another reason or threw, and the third field set, which the CRM would have
\* accepted, was not sent.
C35_Witness ==
  /\ UpdateCalled
  /\ input.answers[1] = "missing_attribute"
  /\ input.answers[2] \in {"other_error", "throws"}
  /\ input.answers[3] = "ok"
  /\ result.attempts = 2
  /\ ~result.updated

\* C36: when a batch import returns, every fetched item is accounted for
\* exactly once: for leads created + skipped + the number of errors = total,
\* for calls processed + the number of errors = total, and attioUpdated is
\* at most processed.
C36_EveryItemAccounted ==
  \A r \in 1..Len(finished) :
    Completed(r) =>
      LET results == finished[r].results
      IN  /\ finished[r].kind = "leads" =>
               results.created + results.skipped + Len(results.errors)
                 = results.total
          /\ finished[r].kind = "calls" =>
               /\ results.processed + Len(results.errors) = results.total
               /\ results.attioUpdated <= results.processed

(***************************************************************************)
(* Properties of the record creation for leads                             *)
(***************************************************************************)
Creations == {n \in DOMAIN itrace : itrace[n].op = "createAttioRecord"}

RecordsCreatedFor(k) ==
  {n \in Creations : itrace[n].ok /\ itrace[n].item = k}

LookedUpBefore(n) ==
  \E m \in 1..(n - 1) :
    /\ itrace[m].run = itrace[n].run
    /\ itrace[m].item = itrace[n].item
    /\ itrace[m].op \in {"findAttioRecordByPhone", "findAttioRecordByEmail"}

\* C37: every path that creates a CRM record for a lead, the live lead
\* webhook and the lead import, first looks up an existing record by phone or
\* email, and over any sequence of lead webhook deliveries and lead imports,
\* a repeated delivery of one lead included, at most one CRM record is
\* created per lead.
C37_OneRecordPerLead ==
  /\ \A n \in Creations : LookedUpBefore(n)
  /\ \A k \in DOMAIN fbLeads : Cardinality(RecordsCreatedFor(k)) <= 1

(***************************************************************************)
(* Properties of createAttioRecord                                         *)
(***************************************************************************)
CreateCalled == result.called /\ input.sink = "createAttioRecord"

\* C38: one call of createAttioRecord sends at most two create requests, the
\* second only after the first was rejected with an error that names
\* lead_status; it returns as soon as one request is accepted, and the CRM
\* holds at most one record more after the call, exactly one when the call
\* returns a record id.
C38_AtMostOneRecordPerCall ==
  CreateCalled =>
    /\ result.requests <= 2
    /\ result.requests = 2 => input.answers[1] = "lead_status_error"
    /\ (input.configured /\ input.answers[1] = "ok") => result.requests = 1
    /\ result.records <= 1
    /\ result.records = 1 <=> ~result.failure
    /\ ~result.failure =>
         input.configured /\ input.answers[result.requests] = "ok"

\* The first request was rejected for lead_status, the second was accepted:
\* two requests, one record.
C38_Witness ==
  /\ CreateCalled
  /\ input.configured
  /\ input.answers[1] = "lead_status_error"
  /\ input.answers[2] = "ok"
  /\ result.requests = 2
  /\ result.records = 1
  /\ ~result.failure

(***************************************************************************)
(* Properties of fetchLeadsFromForm                                        *)
(***************************************************************************)
\* C39: once called, fetchLeadsFromForm returns, for every sequence of page
\* responses; it requests a further page only while a next-page link exists and fewer
\* than 500 leads have been collected, and when a page request fails it
\* returns the leads collected so far.
C39_AlwaysTerminates ==
  /\ result.pc = "loop" ~> result.pc = "returned"
  /\ [][result.pc = "loop" /\ result' # result =>
          result.url # 0 /\ result.leads < 500]_vars
  /\ [](result.pc = "returned" /\ result.failure # "none" =>
          result.returned = result.leads)

=============================================================================
